---------------------------- MODULE Spec2Model ----------------------------
(***************************************************************************)
(* State-machine model of the bias-detection pipeline of                   *)
(* 8asic/HalfTruths-HAIckathon: the response normalizer                    *)
(* (src/src/agents/detector.py), provider selection                        *)
(* (src/src/services/model_factory.py), the per-article pipeline and the   *)
(* bounded-concurrency orchestrator (src/src/agents/orchestrator.py), and  *)
(* the pipeline driver (src/main.py, src/src/web/api.py).                  *)
(***************************************************************************)
EXTENDS Integers, Sequences, FiniteSets, TLC

(***************************************************************************)
(* Bounds of the model.                                                    *)
(***************************************************************************)
\* longest run of tokens put before and after a payload in a raw reply
MaxWrap == 1

(***************************************************************************)
(* JSON values.  A value is a record [ty, n, s]: an integer n, a           *)
(* non-integer number, a string s, null, a list of n well-formed phrase    *)
(* objects, or a list of n entries that are not objects.                   *)
(***************************************************************************)
IntV(i) == [ty |-> "int", n |-> i, s |-> ""]
FloatV == [ty |-> "float", n |-> 0, s |-> "72.5"]
StrV(str) == [ty |-> "str", n |-> 0, s |-> str]
NullV == [ty |-> "null", n |-> 0, s |-> ""]
ListV(k) == [ty |-> "list", n |-> k, s |-> ""]
BadListV(k) == [ty |-> "badlist", n |-> k, s |-> ""]

ScoreKeys ==
  {"emotional_bias_score", "framing_bias_score", "omission_bias_score",
   "overall_bias_score"}
Keys == ScoreKeys \cup {"biased_phrases", "summary"}

(***************************************************************************)
(* Raw text.  A text is a sequence of tokens [t, k, v]: whitespace, the    *)
(* fence "```", the fence with its language tag "```json", "{", "}",       *)
(* prose that holds neither a brace nor a fence, and a member              *)
(* "key": value of a JSON object (with its separator; the braces of a      *)
(* nested value are part of the token).                                    *)
(***************************************************************************)
Tok(name) == [t |-> name, k |-> "", v |-> NullV]
WS == Tok("ws")
FENCE == Tok("fence")
FENCEJSON == Tok("fencejson")
LB == Tok("lb")
RB == Tok("rb")
TXT == Tok("txt")
Field(key, val) == [t |-> "field", k |-> key, v |-> val]
WrapToks == {WS, FENCE, FENCEJSON, LB, RB, TXT}

\* what a provider call hands back: it raises, it gives None, or it gives text
RaiseReply == [kind |-> "raise", toks |-> <<>>]
NoneReply == [kind |-> "none", toks |-> <<>>]
TextReply(toks) == [kind |-> "text", toks |-> toks]

(***************************************************************************)
(* BiasDetector._get_fallback_response                                      *)
(***************************************************************************)
FallbackSummary == "Bias analysis unavailable - using fallback response"
FallbackScore == 50
GetFallbackResponse ==
  [k \in Keys |->
     IF k \in ScoreKeys THEN IntV(FallbackScore)
     ELSE IF k = "biased_phrases" THEN ListV(0)
     ELSE StrV(FallbackSummary)]

(***************************************************************************)
(* str.strip(), str.find, str.rfind and slicing on token sequences          *)
(***************************************************************************)
RECURSIVE LStrip(_)
LStrip(s) == IF s # <<>> /\ Head(s) = WS THEN LStrip(Tail(s)) ELSE s

RECURSIVE RStrip(_)
RStrip(s) ==
  IF s # <<>> /\ s[Len(s)] = WS THEN RStrip(SubSeq(s, 1, Len(s) - 1)) ELSE s

Strip(s) == LStrip(RStrip(s))

\* 1-based index of the first "{", 0 when there is none (find gives -1)
Find(s, tok) ==
  IF \E i \in 1..Len(s) : s[i] = tok
  THEN CHOOSE i \in 1..Len(s) : s[i] = tok /\ \A j \in 1..(i - 1) : s[j] # tok
  ELSE 0

\* 1-based index of the last "}", 0 when there is none (rfind + 1 is 0)
RFind(s, tok) ==
  IF \E i \in 1..Len(s) : s[i] = tok
  THEN CHOOSE i \in 1..Len(s) :
         s[i] = tok /\ \A j \in (i + 1)..Len(s) : s[j] # tok
  ELSE 0

(***************************************************************************)
(* The removal of markdown code fences, detector.py lines 129-135           *)
(***************************************************************************)
StripFenceJson(s) ==
  IF s # <<>> /\ Head(s) = FENCEJSON THEN Tail(s) ELSE s

\* "```json" also starts with "```": three characters go, "json" stays
StripFenceStart(s) ==
  IF s # <<>> /\ Head(s) = FENCE THEN Tail(s)
  ELSE IF s # <<>> /\ Head(s) = FENCEJSON THEN <<TXT>> \o Tail(s)
  ELSE s

StripFenceEnd(s) ==
  IF s # <<>> /\ s[Len(s)] = FENCE THEN SubSeq(s, 1, Len(s) - 1) ELSE s

\* `cleaned` is assigned five times in a row, each time from its last value
Cleaned(s) ==
  CHOOSE cleaned \in
    {Strip(d) : d \in
      {StripFenceEnd(c) : c \in
        {StripFenceStart(b) : b \in
          {StripFenceJson(a) : a \in {Strip(s)}}}}} : TRUE

(***************************************************************************)
(* json.loads on a slice that starts at a "{": it parses exactly when the  *)
(* slice is "{" members "}" with whitespace allowed between the members;   *)
(* a key given twice keeps its last value.                                 *)
(***************************************************************************)
JsonParses(s) ==
  /\ Len(s) >= 2
  /\ s[1] = LB
  /\ s[Len(s)] = RB
  /\ \A i \in 2..(Len(s) - 1) : s[i].t \in {"field", "ws"}

\* a json.loads that kept the first value of a key given twice
JsonLoadsKeepFirst(s) ==
  LET present == {s[i].k : i \in {j \in 1..Len(s) : s[j].t = "field"}}
      first(key) == CHOOSE i \in 1..Len(s) :
                      /\ s[i].t = "field" /\ s[i].k = key
                      /\ \A j \in 1..(i - 1) :
                           ~(s[j].t = "field" /\ s[j].k = key)
  IN [key \in present |-> s[first(key)].v]

JsonLoads(s) ==
  LET present == {s[i].k : i \in {j \in 1..Len(s) : s[j].t = "field"}}
      last(key) == CHOOSE i \in 1..Len(s) :
                     /\ s[i].t = "field" /\ s[i].k = key
                     /\ \A j \in (i + 1)..Len(s) :
                          ~(s[j].t = "field" /\ s[j].k = key)
  IN [key \in present |-> s[last(key)].v]

\* a required list that left the framing score out
RequiredWithoutFraming == {"emotional_bias_score", "overall_bias_score"}

RequiredFields ==
  {"emotional_bias_score", "framing_bias_score", "overall_bias_score"}

(***************************************************************************)
(* BiasDetector._extract_json.  TryExtractJson is the body of its try       *)
(* block (lines 125-154): an outcome [exc, val] whose exc names the         *)
(* exception the block ends with ("" when it returns val).  ExtractJson     *)
(* adds the early return of line 121 and the two handlers of lines          *)
(* 156-162.                                                                 *)
(***************************************************************************)
Returned(val) == [exc |-> "", val |-> val]
Raised(exc) == [exc |-> exc, val |-> GetFallbackResponse]

\* lines 144-154 on the slice from the first "{" to the last "}"
LoadSlice(json_str) ==
  IF ~JsonParses(json_str) THEN Raised("JSONDecodeError")
  ELSE LET result == JsonLoads(json_str)
       IN IF RequiredFields \subseteq DOMAIN result
          THEN Returned(result)
          ELSE Returned(GetFallbackResponse)

\* lines 137-139 on the cleaned text, then the slice
ParseCleaned(cleaned) ==
  LET start == Find(cleaned, LB)
      end == RFind(cleaned, RB)
  IN IF start = 0 \/ end = 0 THEN Returned(GetFallbackResponse)
     ELSE CHOOSE r \in {LoadSlice(json_str) :
                          json_str \in {SubSeq(cleaned, start, end)}} : TRUE

\* the text is cleaned once and the cleaned text is parsed
TryExtractJson(toks) ==
  CHOOSE r \in {ParseCleaned(cleaned) : cleaned \in {Cleaned(toks)}} : TRUE

\* _extract_json without its two handlers
ExtractJsonNoHandlers(text) ==
  IF text.kind # "text" \/ text.toks = <<>> THEN Returned(GetFallbackResponse)
  ELSE TryExtractJson(text.toks)

ExtractJson(text) ==
  IF text.kind # "text" \/ text.toks = <<>> THEN Returned(GetFallbackResponse)
  ELSE LET r == TryExtractJson(text.toks)
       IN IF r.exc = "JSONDecodeError" THEN Returned(GetFallbackResponse)
          ELSE IF r.exc # "" THEN Returned(GetFallbackResponse)
          ELSE r

(***************************************************************************)
(* Texts (article bodies, titles, generated texts): an identity, the       *)
(* number of characters left after strip(), and the number of words.       *)
(***************************************************************************)
Text(id, chars, words) == [id |-> id, chars |-> chars, words |-> words]
EmptyText == Text("", 0, 0)

Providers == {"groq", "gemini", "claude"}

(***************************************************************************)
(* BiasDetector.detect_biases with _analyze_chat_completion,                *)
(* _analyze_gemini and _analyze_claude: the provider call ends with         *)
(* `reply`.                                                                 *)
(***************************************************************************)
MinArticleChars == 10

\* a detect_biases whose failing call left the half-built payload behind
DetectBiasesNoFallback(article_text, provider, reply) ==
  IF article_text.chars < MinArticleChars THEN GetFallbackResponse
  ELSE IF reply.kind = "text"
    THEN LET r == ExtractJson(reply)
         IN IF r.exc # "" THEN GetFallbackResponse ELSE r.val
  ELSE [k \in RequiredFields |-> IntV(0)]

DetectBiases(article_text, provider, reply) ==
  IF article_text.chars < MinArticleChars THEN GetFallbackResponse
  ELSE IF provider \notin Providers THEN GetFallbackResponse
  ELSE IF reply.kind = "raise" THEN GetFallbackResponse
  ELSE IF provider = "groq" /\ reply.kind = "none" THEN GetFallbackResponse
  ELSE LET r == ExtractJson(reply)
       IN IF r.exc # "" THEN GetFallbackResponse ELSE r.val

(***************************************************************************)
(* Raw replies given to the normalizer: a payload (a JSON object whose     *)
(* members are a subset of the six keys, with values from one of three     *)
(* value profiles), or nothing, between two runs of wrapper tokens.        *)
(***************************************************************************)
KeyOrder ==
  <<"emotional_bias_score", "framing_bias_score", "omission_bias_score",
    "overall_bias_score", "biased_phrases", "summary">>

TypicalValues ==
  [k \in Keys |->
     CASE k = "emotional_bias_score" -> IntV(80)
       [] k = "framing_bias_score" -> IntV(60)
       [] k = "omission_bias_score" -> IntV(40)
       [] k = "overall_bias_score" -> IntV(75)
       [] k = "biased_phrases" -> ListV(2)
       [] OTHER -> StrV("loaded language throughout")]

EdgeValues ==
  [k \in Keys |->
     CASE k = "emotional_bias_score" -> IntV(0)
       [] k = "framing_bias_score" -> IntV(100)
       [] k = "omission_bias_score" -> IntV(0)
       [] k = "overall_bias_score" -> IntV(20)
       [] k = "biased_phrases" -> ListV(0)
       [] OTHER -> StrV("")]

OffSchemaValues ==
  [k \in Keys |->
     CASE k = "emotional_bias_score" -> IntV(150)
       [] k = "framing_bias_score" -> IntV(-5)
       [] k = "omission_bias_score" -> FloatV
       [] k = "overall_bias_score" -> StrV("high")
       [] k = "biased_phrases" -> BadListV(1)
       [] OTHER -> NullV]

ValueProfiles == {TypicalValues, EdgeValues, OffSchemaValues}

Members(present, values) ==
  SelectSeq([i \in 1..Len(KeyOrder) |-> Field(KeyOrder[i], values[KeyOrder[i]])],
            LAMBDA f : f.k \in present)

JsonObject(present, values) == <<LB>> \o Members(present, values) \o <<RB>>

Wrappers == UNION {[1..n -> WrapToks] : n \in 0..MaxWrap}

Payloads ==
  {<<>>}
  \cup {JsonObject(present, values) : present \in SUBSET Keys, values \in ValueProfiles}
  \cup {<<LB, Field("overall_bias_score", IntV(10)), WS,
          Field("emotional_bias_score", IntV(10)),
          Field("framing_bias_score", IntV(10)),
          Field("overall_bias_score", IntV(90)), RB>>,
         <<LB, Field("overall_bias_score", IntV(10)), RB, TXT, LB,
          Field("emotional_bias_score", IntV(10)),
          Field("framing_bias_score", IntV(10)), RB>>}

RawTexts ==
  {NoneReply}
  \cup {TextReply(pre \o mid \o post) : pre \in Wrappers, post \in Wrappers, mid \in Payloads}

Body(id) == Text(id, 600, 100)
ShortBody == Text("short", 9, 2)

DetectReplies ==
  {RaiseReply, NoneReply, TextReply(<<TXT>>)}
  \cup {TextReply(<<FENCEJSON>> \o JsonObject(Keys, values) \o <<FENCE>>) :
          values \in ValueProfiles}
  \cup {TextReply(JsonObject(RequiredFields, values)) : values \in ValueProfiles}

(***************************************************************************)
(* Python truth and lookup on an analysis                                  *)
(***************************************************************************)
Truthy(v) ==
  CASE v.ty = "int" -> v.n # 0
    [] v.ty = "float" -> TRUE
    [] v.ty = "str" -> v.s # ""
    [] v.ty = "null" -> FALSE
    [] OTHER -> v.n > 0

\* dict.get(key, default)
Get(analysis, key, default) ==
  IF key \in DOMAIN analysis THEN analysis[key] ELSE default

\* what `value > n` and `value < n` do: "TypeError" unless value is a number
Comparable(v) == v.ty \in {"int", "float"}
\* the one non-integer number of the model is 72.5
NumberOf(v) == IF v.ty = "int" THEN v.n ELSE 72

(***************************************************************************)
(* What a provider call of the rewriter or the explainer hands back: it    *)
(* raises, it gives None, or it gives a text.                              *)
(***************************************************************************)
NoneText == Text("<None>", 0, 0)
GenRaise == [kind |-> "raise", text |-> EmptyText]
GenNone == [kind |-> "none", text |-> EmptyText]
GenText(t) == [kind |-> "text", text |-> t]

TextOutcome(t) == [exc |-> "", val |-> t]
TextRaised(exc) == [exc |-> exc, val |-> NoneText]

(***************************************************************************)
(* ArticleRewriter._create_rewrite_prompt: the exception it ends with, ""  *)
(* when it returns the prompt.  It walks biased_phrases[:10] and calls     *)
(* .get on each entry.                                                     *)
(***************************************************************************)
RewritePromptExc(bias_analysis) ==
  LET biased_phrases == Get(bias_analysis, "biased_phrases", ListV(0))
  IN IF ~Truthy(biased_phrases) THEN ""
     ELSE IF biased_phrases.ty = "list" THEN ""
     ELSE IF biased_phrases.ty \in {"int", "float"} THEN "TypeError"
     ELSE "AttributeError"

\* a rewrite_neutral that let the provider's exception through
RewriteNeutralNoHandler(original_text, bias_analysis, provider, reply) ==
  IF RewritePromptExc(bias_analysis) # ""
  THEN TextRaised(RewritePromptExc(bias_analysis))
  ELSE IF reply.kind = "raise" THEN TextRaised("ProviderError")
  ELSE IF reply.kind = "none" THEN TextOutcome(original_text)
  ELSE TextOutcome(reply.text)

(***************************************************************************)
(* ArticleRewriter.rewrite_neutral, its provider call ending with reply    *)
(***************************************************************************)
RewriteNeutral(original_text, bias_analysis, provider, reply) ==
  IF RewritePromptExc(bias_analysis) # ""
  THEN TextRaised(RewritePromptExc(bias_analysis))
  ELSE IF provider \notin Providers THEN TextOutcome(original_text)
  ELSE IF reply.kind = "raise" THEN TextOutcome(original_text)
  ELSE IF provider = "groq"
    THEN IF reply.kind = "none" \/ reply.text = EmptyText
         THEN TextOutcome(original_text)
         ELSE TextOutcome(reply.text)
  ELSE IF provider = "gemini"
    THEN IF reply.kind = "none" THEN TextOutcome(NoneText)
         ELSE TextOutcome(reply.text)
  ELSE IF reply.kind = "none" THEN TextOutcome(original_text)
       ELSE TextOutcome(reply.text)

(***************************************************************************)
(* The gate of analyze_article, line 23:                                   *)
(*   original_title and bias_analysis.get('overall_bias_score', 0) > 20    *)
(***************************************************************************)
TitleGateThreshold == 20

TitleGateExc(original_title, bias_analysis) ==
  IF original_title = EmptyText THEN ""
  ELSE IF Comparable(Get(bias_analysis, "overall_bias_score", IntV(0)))
       THEN "" ELSE "TypeError"

\* a gate that looked at the title only
TitleGateAnyScore(original_title, bias_analysis) == original_title # EmptyText

TitleGate(original_title, bias_analysis) ==
  /\ original_title # EmptyText
  /\ NumberOf(Get(bias_analysis, "overall_bias_score", IntV(0)))
       > TitleGateThreshold

(***************************************************************************)
(* ArticleRewriter.rewrite_title_neutral.  TitleNeedsCall: the early       *)
(* return of line 93 is not taken, the provider is called.                 *)
(***************************************************************************)
TitleSkipBelow == 20
MinTitleLen == 10
MaxTitleLen == 120

TitleNeedsCall(bias_analysis) ==
  ~(NumberOf(Get(bias_analysis, "overall_bias_score", IntV(0)))
      < TitleSkipBelow)

\* titles as the provider may word them, and the same within quote characters
TitleOfLength(n) == Text("headline", n, 5)
Quoted(t) == Text("\"" \o t.id \o "\"", t.chars + 2, t.words)
TitleLengths == {9, 10, 11, 40, 119, 120, 121}
TitleTexts ==
  {TitleOfLength(n) : n \in TitleLengths} \cup {Text("title A", 40, 6)}

\* neutral_title.strip().replace('"', ''), line 146
CleanTitle(t) ==
  IF \E c \in TitleTexts : Quoted(c) = t
  THEN CHOOSE c \in TitleTexts : Quoted(c) = t
  ELSE t

\* a rewrite_title_neutral that measured the title before cleaning it
RewriteTitleUncleaned(original_title, bias_analysis, provider, reply) ==
  IF ~Comparable(Get(bias_analysis, "overall_bias_score", IntV(0)))
  THEN TextRaised("TypeError")
  ELSE IF ~TitleNeedsCall(bias_analysis) THEN TextOutcome(original_title)
  ELSE IF reply.kind # "text" \/ reply.text = EmptyText
    THEN TextOutcome(original_title)
  ELSE IF MinTitleLen < reply.text.chars /\ reply.text.chars < MaxTitleLen
    THEN TextOutcome(CleanTitle(reply.text))
    ELSE TextOutcome(original_title)

RewriteTitleNeutral(original_title, bias_analysis, provider, reply) ==
  IF ~Comparable(Get(bias_analysis, "overall_bias_score", IntV(0)))
  THEN TextRaised("TypeError")
  ELSE IF ~TitleNeedsCall(bias_analysis) THEN TextOutcome(original_title)
  ELSE IF provider \notin Providers THEN TextOutcome(original_title)
  ELSE IF reply.kind = "raise" THEN TextOutcome(original_title)
  ELSE IF reply.kind = "none" /\ provider # "groq"
    THEN TextOutcome(original_title)
  ELSE LET neutral_title ==
             IF provider = "groq" /\ (reply.kind = "none" \/ reply.text = EmptyText)
             THEN original_title ELSE reply.text
           clean_title == CleanTitle(neutral_title)
       IN IF MinTitleLen < clean_title.chars /\ clean_title.chars < MaxTitleLen
          THEN TextOutcome(clean_title)
          ELSE TextOutcome(original_title)

(***************************************************************************)
(* BiasExplainer.explain_biases                                             *)
(***************************************************************************)
ExplainUnavailable == Text("Unable to generate explanation at this time.", 44, 7)
ExplainEmpty == Text("Unable to generate explanation.", 31, 4)

\* an explain_biases whose handler gave the string of the empty reply
ExplainBiasesOtherString(bias_analysis, provider, reply) ==
  IF reply.kind = "text" /\ reply.text # EmptyText THEN reply.text
  ELSE ExplainEmpty

ExplainBiases(bias_analysis, provider, reply) ==
  IF provider \notin Providers THEN ExplainUnavailable
  ELSE IF reply.kind = "raise" THEN ExplainUnavailable
  ELSE IF provider = "groq"
    THEN IF reply.kind = "none" \/ reply.text = EmptyText
         THEN ExplainEmpty ELSE reply.text
  ELSE IF provider = "gemini"
    THEN IF reply.kind = "none" THEN NoneText ELSE reply.text
  ELSE IF reply.kind = "none" THEN ExplainUnavailable ELSE reply.text

(***************************************************************************)
(* BiasAnalysisOrchestrator._assess_rewrite_quality                         *)
(***************************************************************************)
Abs(i) == IF i < 0 THEN -i ELSE i

AssessExc(original, rewritten) ==
  IF original # rewritten /\ rewritten = NoneText THEN "AttributeError" ELSE ""

\* a classification that counted a change of exactly half as significant
AssessAtLeastHalf(original, rewritten) ==
  IF original = rewritten THEN "no_change"
  ELSE IF 2 * Abs(original.words - rewritten.words) >= original.words
       THEN "significant_change"
       ELSE "moderate_change"

AssessRewriteQuality(original, rewritten) ==
  IF original = rewritten THEN "no_change"
  ELSE IF 2 * Abs(original.words - rewritten.words) > original.words
       THEN "significant_change"
       ELSE "moderate_change"

(***************************************************************************)
(* Articles and the records analyze_article and analyze_multiple_articles  *)
(* give                                                                    *)
(***************************************************************************)
Article(title, body) == [title |-> title, body |-> body]

ResultRecord(article, analysis, neutral_text, neutral_title, explanation) ==
  [original_text |-> article.body,
   original_title |-> article.title,
   neutral_version |-> neutral_text,
   neutral_title |-> neutral_title,
   analysis |-> analysis,
   explanation |-> explanation,
   source |-> "unknown",
   rewrite_quality |-> AssessRewriteQuality(article.body, neutral_text)]

ErrorRecord(exc) == [error |-> exc]
IsError(r) == "error" \in DOMAIN r

\* an exception as asyncio.gather(return_exceptions=True) hands it back
ExceptionObject(exc) == [exception |-> exc]
IsException(r) == "exception" \in DOMAIN r

\* a gather without return_exceptions: the first exception is raised
GatherRaising(outs) ==
  IF \E i \in 1..Len(outs) : "exception" \in DOMAIN outs[i]
  THEN [exc |-> "raised", val |-> <<>>]
  ELSE [exc |-> "", val |-> outs]

\* a loop that left the exceptions out of the list
KeepResultsOnly(gathered) ==
  SelectSeq(gathered, LAMBDA r : ~("exception" \in DOMAIN r))

(***************************************************************************)
(* asyncio.gather with return_exceptions=True, on the outcomes of the   *)
(* tasks, and the loop of lines 51-56 that turns exceptions into records   *)
(***************************************************************************)
Gather(outs) == [exc |-> "", val |-> outs]

ProcessResults(gathered) ==
  [i \in 1..Len(gathered) |->
     IF IsException(gathered[i]) THEN ErrorRecord(gathered[i].exception)
     ELSE gathered[i]]

(***************************************************************************)
(* BiasAnalysisOrchestrator.analyze_article run from its first line to its *)
(* last with nothing else going on: the record it returns, or the          *)
(* exception it ends with.  sc gives the reply to each of its provider     *)
(* calls, h the provider of each agent.                                    *)
(***************************************************************************)
AnalyzeArticle(article, sc, h) ==
  LET bias_analysis == DetectBiases(article.body, h["detector"].provider, sc.detect)
      rewrite == RewriteNeutral(article.body, bias_analysis,
                                h["rewriter"].provider, sc.rewrite)
      gateExc == TitleGateExc(article.title, bias_analysis)
      neutral_title ==
        IF TitleGate(article.title, bias_analysis)
        THEN RewriteTitleNeutral(article.title, bias_analysis,
                                 h["rewriter"].provider, sc.title).val
        ELSE article.title
      explanation == ExplainBiases(bias_analysis, h["explainer"].provider, sc.explain)
  IN IF rewrite.exc # "" THEN ExceptionObject(rewrite.exc)
     ELSE IF gateExc # "" THEN ExceptionObject(gateExc)
     ELSE IF AssessExc(article.body, rewrite.val) # ""
       THEN ExceptionObject(AssessExc(article.body, rewrite.val))
     ELSE ResultRecord(article, bias_analysis, rewrite.val, neutral_title,
                       explanation)

(***************************************************************************)
(* The article store, news_db.py: table data_news as the sequence of its   *)
(* rows in the order of their ids.                                         *)
(***************************************************************************)
\* SQL NULL
NoValue == [null |-> TRUE]

\* _generate_content_hash: the md5 of title and body written one after the
\* other with nothing in between, md5 taken to tell any two strings apart
GenerateContentHash(article) == article.title.id \o article.body.id

\* article.get('date', ''): dates are day numbers, 0 standing for ''
NoDate == 0

NewRow(article, stamp) ==
  [title |-> article.title,
   body |-> article.body,
   bias |-> NoValue,
   rewritten_article |-> NoValue,
   date |-> Get(article, "date", NoDate),
   content_hash |-> GenerateContentHash(article),
   created_at |-> stamp]

\* add_news from the i-th article of data on; `failing` holds the indices
\* whose statements raise sqlite3.Error
\* an add_news that compared the digest with the newest row only, on a
\* table without the UNIQUE constraint
RECURSIVE AddNewsFromNewestOnly(_, _, _, _, _)
AddNewsFromNewestOnly(rows, data, i, stamp, failing) ==
  IF i > Len(data) THEN [rows |-> rows, actually_added |-> 0]
  ELSE IF i \in failing THEN AddNewsFromNewestOnly(rows, data, i + 1, stamp, failing)
  ELSE IF rows # <<>>
            /\ rows[Len(rows)].content_hash = GenerateContentHash(data[i])
    THEN AddNewsFromNewestOnly(rows, data, i + 1, stamp, failing)
  ELSE LET rest == AddNewsFromNewestOnly(Append(rows, NewRow(data[i], stamp)),
                                         data, i + 1, stamp, failing)
       IN [rows |-> rest.rows, actually_added |-> rest.actually_added + 1]

RECURSIVE AddNewsFrom(_, _, _, _, _)
AddNewsFrom(rows, data, i, stamp, failing) ==
  IF i > Len(data) THEN [rows |-> rows, actually_added |-> 0]
  ELSE IF i \in failing THEN AddNewsFrom(rows, data, i + 1, stamp, failing)
  ELSE IF \E r \in 1..Len(rows) :
            rows[r].content_hash = GenerateContentHash(data[i])
    THEN AddNewsFrom(rows, data, i + 1, stamp, failing)
  ELSE LET rest == AddNewsFrom(Append(rows, NewRow(data[i], stamp)), data,
                               i + 1, stamp, failing)
       IN [rows |-> rest.rows, actually_added |-> rest.actually_added + 1]

\* an add_news that inserted without looking the digest up, on a table
\* without the UNIQUE constraint
RECURSIVE AddNewsNoLookup(_, _, _, _)
AddNewsNoLookup(rows, data, stamp, failing) ==
  IF data = <<>> THEN [rows |-> rows, actually_added |-> 0]
  ELSE LET rest == AddNewsNoLookup(Append(rows, NewRow(Head(data), stamp)),
                                   Tail(data), stamp, failing)
       IN [rows |-> rest.rows, actually_added |-> rest.actually_added + 1]

\* an add_news that gave up at the first sqlite3.Error, nothing committed
AddNewsAborting(rows, data, stamp, failing) ==
  IF failing \cap (1..Len(data)) # {}
  THEN [rows |-> rows, actually_added |-> 0]
  ELSE AddNewsFrom(rows, data, 1, stamp, failing)

\* add_news(data): the table afterwards and the count returned
AddNews(rows, data, stamp, failing) == AddNewsFrom(rows, data, 1, stamp, failing)

\* clear_old_articles: DELETE ... WHERE date < date('now', '-N days'),
\* cutoff being that day
ClearOldArticles(rows, cutoff) == SelectSeq(rows, LAMBDA r : ~(r.date < cutoff))

\* get_article_stats: COUNT(*), COUNT(*) WHERE bias IS NOT NULL,
\* COUNT(DISTINCT content_hash)
GetArticleStats(rows) ==
  [total |-> Len(rows),
   processed |-> Cardinality({r \in 1..Len(rows) : rows[r].bias # NoValue}),
   unique_content |-> Cardinality({rows[r].content_hash : r \in 1..Len(rows)})]

\* clear_processed_articles: DELETE ... WHERE bias IS NOT NULL
ClearProcessedArticles(rows) == SelectSeq(rows, LAMBDA r : r.bias = NoValue)

\* prepare_data_for_llm(limit, processed_only=True): every list the query
\* may give.  Rows of equal created_at come in an order SQL leaves open.
Unprocessed(rows) == {r \in 1..Len(rows) : rows[r].bias = NoValue}

Smaller(a, b) == IF a < b THEN a ELSE b

PrepareDataForLlm(rows, limit) ==
  LET n == Smaller(limit, Cardinality(Unprocessed(rows)))
      picks == {f \in [1..n -> Unprocessed(rows)] :
                  /\ \A i, j \in 1..n : i # j => f[i] # f[j]
                  /\ \A i, j \in 1..n :
                       i < j => rows[f[i]].created_at >= rows[f[j]].created_at
                  /\ \A r \in Unprocessed(rows) :
                       (\A i \in 1..n : f[i] # r) =>
                         \A i \in 1..n :
                           rows[f[i]].created_at >= rows[r].created_at}
  IN {[i \in 1..n |-> Article(rows[f[i]].title, rows[f[i]].body)] : f \in picks}

\* add_bias(llm_data): UPDATE ... WHERE title = ?, one entry after the other
RECURSIVE AddBias(_, _)
AddBias(rows, llm_data) ==
  IF llm_data = <<>> THEN rows
  ELSE AddBias([r \in 1..Len(rows) |->
                  IF rows[r].title = Head(llm_data).title
                  THEN [rows[r] EXCEPT
                          !.bias = Head(llm_data).bias,
                          !.rewritten_article = Head(llm_data).rewritten_article]
                  ELSE rows[r]],
               Tail(llm_data))

(***************************************************************************)
(* BiasDetectionPipeline._format_results_for_db                            *)
(***************************************************************************)
UnknownTitle == Text("Unknown", 7, 1)

\* str(analysis)
BiasString(analysis) == [str |-> analysis]

Storable(result) ==
  /\ ~IsError(result)
  /\ DOMAIN result # {}
  /\ "analysis" \in DOMAIN result
  /\ DOMAIN result.analysis # {}
  /\ "neutral_version" \in DOMAIN result
  /\ result.neutral_version \notin {EmptyText, NoneText}

\* a _format_results_for_db that made an entry of every result
FormatEveryResult(analysis_results, original_articles) ==
  [i \in 1..Len(analysis_results) |->
     [title |-> original_articles[i].title,
      bias |-> BiasString(Get(analysis_results[i], "analysis",
                              GetFallbackResponse)),
      rewritten_article |-> Get(analysis_results[i], "neutral_version",
                                original_articles[i].body)]]

RECURSIVE FormatFrom(_, _, _)
FormatFrom(analysis_results, original_articles, i) ==
  IF i > Len(analysis_results) THEN <<>>
  ELSE IF ~Storable(analysis_results[i])
    THEN FormatFrom(analysis_results, original_articles, i + 1)
  ELSE <<[title |-> IF i <= Len(original_articles)
                     THEN original_articles[i].title ELSE UnknownTitle,
           bias |-> BiasString(analysis_results[i].analysis),
           rewritten_article |-> analysis_results[i].neutral_version]>>
       \o FormatFrom(analysis_results, original_articles, i + 1)

FormatResultsForDb(analysis_results, original_articles) ==
  FormatFrom(analysis_results, original_articles, 1)

(***************************************************************************)
(* ModelFactory: the backends in the order get_model tries them, and the   *)
(* candidate models of each in listed order.                               *)
(***************************************************************************)
BackendOrder == <<"groq", "gemini", "claude">>

GROQ_MODELS ==
  <<"llama-3.1-70b-versatile", "llama-3.1-8b-instant",
    "llama-3.1-405b-reasoning">>

GEMINI_MODELS ==
  <<"models/gemini-2.0-flash", "models/gemini-2.0-flash-001",
    "models/gemini-flash-latest", "models/gemini-2.0-flash-lite",
    "models/gemini-1.5-flash-latest">>

CLAUDE_MODELS ==
  <<"claude-3-5-sonnet-20241022", "claude-3-opus-20240229",
    "claude-3-sonnet-20240229">>

ModelsOf(backend) ==
  CASE backend = "groq" -> GROQ_MODELS
    [] backend = "gemini" -> GEMINI_MODELS
    [] backend = "claude" -> CLAUDE_MODELS

\* a (backend, model) pair is <<index in BackendOrder, index in ModelsOf>>
Pairs ==
  UNION {{<<b, m>> : m \in 1..Len(ModelsOf(BackendOrder[b]))} :
           b \in 1..Len(BackendOrder)}

Handle(pr) ==
  [provider |-> BackendOrder[pr[1]],
   model |-> ModelsOf(BackendOrder[pr[1]])[pr[2]]]
NoHandle == [provider |-> "", model |-> ""]

\* os.getenv of a backend's key: not set, set to "", or set to a key
CredValues == {"unset", "empty", "key"}

\* the three agents, in the order BiasAnalysisOrchestrator.__init__ builds them
AgentOrder == <<"detector", "rewriter", "explainer">>
Agents == {"detector", "rewriter", "explainer"}

\* BiasAnalysisOrchestrator.__init__: the default of max_concurrent
MaxConcurrent == 2

(***************************************************************************)
(* State                                                                   *)
(***************************************************************************)
VARIABLES
  ncall,       \* the call into the detector: "none" before it, then its name
  rawText,     \* the reply that call is given
  detectArgs,  \* [body, provider] of a detect_biases call
  normalized,  \* the outcome of the _extract_json call
  detected,    \* the analysis the detect_biases call returned
  cred,        \* the environment: backend -> value of its API key variable
  probed,      \* the providers as last seen: pair -> "unknown", "ok", "failed"
  pipe,        \* the pipeline object: "none" or "ready"
  ctor,        \* the agent whose constructor runs get_model: 0 when none does
  scan,        \* the pair the running get_model call tries next
  tried,       \* the handles the running get_model call tried in vain
  skipped,     \* the backends it left for want of a credential
  handles,     \* agent -> the (provider, model) its constructor stored
  lastSel,     \* how the last get_model call ended
  batch,       \* the articles given to analyze_multiple_articles
  script,      \* article index -> what the provider answers to its four calls
  task,        \* article index -> where its analyze_article coroutine stands
  permits,     \* the value of the orchestrator's semaphore
  bphase,      \* analyze_multiple_articles: "none" when no call is under way,
               \* then "called", "running", "returned" or "raised"
  results,     \* the list analyze_multiple_articles returned
  overtaken,   \* some pipeline finished while one of a lower index had not
  store,       \* the rows of table data_news, in the order of their ids
  store0,      \* the rows the table held at the start, or before the last
               \* call made on news_db by itself
  rphase,      \* run_full_pipeline: "idle", or the await it stands at
  runs,        \* the number of run_full_pipeline calls made so far
  joined,      \* a second analyze_multiple_articles call on the orchestrator:
               \* the index of its first coroutine (0 when there is none),
               \* and the calls that have returned
  agentCall,   \* a call made on one agent by itself: its name and arguments
  agentOut,    \* what that call gave back, once it has
  dbCall,      \* the last call made on news_db by itself: its name, its
               \* arguments, what it returned, and the clock
  race         \* two add_news calls under way on their own connections:
               \* where each stands, its open transaction, the write lock

detectorVars == <<ncall, rawText, detectArgs, normalized, detected>>
factoryVars ==
  <<cred, probed, pipe, ctor, scan, tried, skipped, handles, lastSel>>
orchVars == <<batch, script, task, permits, bphase, results, overtaken>>
runVars == <<store, store0, rphase, runs>>
agentVars == <<agentCall, agentOut>>
vars == <<detectorVars, factoryVars, orchVars, runVars, joined, agentVars, dbCall, race>>

\* what an action of one component leaves alone in the others
besideDetector == <<factoryVars, orchVars, runVars, joined, agentVars, dbCall, race>>
besideFactory == <<detectorVars, orchVars, runVars, joined, agentVars, dbCall, race>>
besideOrch == <<detectorVars, cred, probed, pipe, ctor, scan, tried, skipped,
                lastSel, runVars, joined, agentVars, dbCall, race>>
besideRun == <<detectorVars, factoryVars, joined, agentVars, dbCall, race>>
besideShared == <<detectorVars, cred, probed, pipe, ctor, scan, tried, skipped,
                  lastSel, runVars, agentVars, dbCall, race>>

NoArgs == [body |-> EmptyText, provider |-> ""]
NoSel == [agent |-> "", handle |-> NoHandle, raised |-> FALSE,
          tried |-> {}, skipped |-> {}]

DetectorIdle ==
  /\ ncall = "none"
  /\ rawText = NoneReply
  /\ detectArgs = NoArgs
  /\ normalized = Returned(GetFallbackResponse)
  /\ detected = GetFallbackResponse

FactoryIdle ==
  /\ probed = [pr \in Pairs |-> "unknown"]
  /\ pipe = "none"
  /\ ctor = 0
  /\ scan = <<1, 1>>
  /\ tried = {}
  /\ skipped = {}
  /\ handles = [a \in Agents |-> NoHandle]
  /\ lastSel = NoSel

OrchIdle ==
  /\ batch = <<>>
  /\ script = <<>>
  /\ task = <<>>
  /\ permits = MaxConcurrent
  /\ bphase = "none"
  /\ results = <<>>
  /\ overtaken = FALSE

NoJoin == [at |-> 0, returned |-> {}]

NoAgentCall ==
  [fn |-> "none", text |-> EmptyText, title |-> EmptyText,
   analysis |-> GetFallbackResponse, provider |-> "", reply |-> GenRaise,
   rewritten |-> EmptyText]
NoAgentOut ==
  [done |-> FALSE, exc |-> "", text |-> EmptyText, quality |-> "",
   called |-> FALSE]
AgentIdle == agentCall = NoAgentCall /\ agentOut = NoAgentOut

NoDbCall ==
  [fn |-> "none", data |-> <<>>, failing |-> {}, returned |-> 0, now |-> 1]
NoRace ==
  [data |-> <<<<>>, <<>>>>, i |-> <<1, 1>>, pc |-> <<"none", "none">>,
   pending |-> <<<<>>, <<>>>>, added |-> <<0, 0>>, refused |-> <<0, 0>>,
   lock |-> 0]
DbIdle == dbCall = NoDbCall /\ race = NoRace

RunIdle ==
  /\ store = <<>>
  /\ store0 = <<>>
  /\ rphase = "idle"
  /\ runs = 0
  /\ joined = NoJoin
  /\ AgentIdle
  /\ DbIdle

\* a call of _extract_json on any raw text, or a call of detect_biases
InitDetector ==
  /\ ncall = "none"
  /\ \/ rawText \in RawTexts /\ detectArgs = NoArgs
     \/ /\ rawText \in DetectReplies
        /\ detectArgs \in [body : {Body("A"), ShortBody, EmptyText},
                           provider : Providers]
  /\ normalized = Returned(GetFallbackResponse)
  /\ detected = GetFallbackResponse
  /\ cred = [b \in Providers |-> "unset"]
  /\ FactoryIdle
  /\ OrchIdle
  /\ RunIdle

\* one call of _extract_json
Normalize ==
  /\ ncall = "none" /\ detectArgs = NoArgs
  /\ ncall' = "extract"
  /\ normalized' = ExtractJson(rawText)
  /\ UNCHANGED <<rawText, detectArgs, detected, besideDetector>>

\* one call of detect_biases, its provider call ending with rawText
Detect ==
  /\ ncall = "none" /\ detectArgs # NoArgs
  /\ ncall' = "detect"
  /\ detected' = DetectBiases(detectArgs.body, detectArgs.provider, rawText)
  /\ UNCHANGED <<rawText, detectArgs, normalized, besideDetector>>

NextDetector == Normalize \/ Detect

SpecDetector == InitDetector /\ [][NextDetector]_vars

(***************************************************************************)
(* Construction of the pipeline: BiasDetectionPipeline.__init__ builds the *)
(* orchestrator, whose three agents each call ModelFactory.get_model.      *)
(* get_model is followed trial call by trial call; what a trial call       *)
(* gives is the environment's choice.                                      *)
(***************************************************************************)
\* a get_<backend> that went to its trial calls without looking for the key
CredentialNotChecked(b) == TRUE

HasCredential(b) == cred[BackendOrder[b]] = "key"

\* a get_model that had no Claude branch
NextBackendNoClaude(b) == IF b + 1 < Len(BackendOrder) THEN <<b + 1, 1>> ELSE <<0, 0>>

\* where the scan goes once backend b is given up: the next backend, or
\* <<0, 0>> when get_model has none left and raises RuntimeError
NextBackend(b) == IF b < Len(BackendOrder) THEN <<b + 1, 1>> ELSE <<0, 0>>

\* a get_<backend> that gave the backend up at its first failed model
FirstFailureLeavesBackend(pr) == NextBackend(pr[1])

\* where the scan goes after the trial of pair pr failed
AfterFailedTrial(pr) ==
  IF pr[2] < Len(ModelsOf(BackendOrder[pr[1]]))
  THEN <<pr[1], pr[2] + 1>>
  ELSE NextBackend(pr[1])

\* get_model returns handle h to the constructor of agent ctor
ReturnHandle(h, pr) ==
  /\ handles' = [handles EXCEPT ![AgentOrder[ctor]] = h]
  /\ lastSel' = [agent |-> AgentOrder[ctor], handle |-> h, raised |-> FALSE,
                 tried |-> tried, skipped |-> skipped]
  /\ ctor' = IF ctor < Len(AgentOrder) THEN ctor + 1 ELSE 0
  /\ pipe' = IF ctor < Len(AgentOrder) THEN pipe ELSE "ready"
  /\ scan' = <<1, 1>>
  /\ tried' = {}
  /\ skipped' = {}

\* get_model raises "No AI models available": the constructor of the agent,
\* of the orchestrator and of the pipeline raise with it
RaiseNoModel(tr, sk) ==
  /\ lastSel' = [agent |-> AgentOrder[ctor], handle |-> NoHandle,
                 raised |-> TRUE, tried |-> tr, skipped |-> sk]
  /\ handles' = [a \in Agents |-> NoHandle]
  /\ ctor' = 0
  /\ pipe' = "none"
  /\ scan' = <<1, 1>>
  /\ tried' = {}
  /\ skipped' = {}

\* the scan moves on to pair `to`, or ends get_model when there is none
MoveOn(to, tr, sk) ==
  IF to = <<0, 0>> THEN RaiseNoModel(tr, sk)
  ELSE /\ scan' = to
       /\ tried' = tr
       /\ skipped' = sk
       /\ UNCHANGED <<pipe, ctor, handles, lastSel>>

\* main() or get_pipeline() calls BiasDetectionPipeline()
BeginConstruct ==
  /\ pipe = "none" /\ ctor = 0
  /\ ctor' = 1
  /\ scan' = <<1, 1>>
  /\ tried' = {}
  /\ skipped' = {}
  /\ UNCHANGED <<cred, probed, pipe, handles, lastSel, besideFactory>>

\* get_<backend>: the key is missing, ValueError, get_model goes on
SkipBackend ==
  /\ ctor > 0
  /\ ~HasCredential(scan[1])
  /\ MoveOn(NextBackend(scan[1]), tried, skipped \cup {BackendOrder[scan[1]]})
  /\ UNCHANGED <<cred, probed, besideFactory>>

\* the trial call of the pair under scan answers with a non-empty reply
TrialSucceeds ==
  /\ ctor > 0
  /\ HasCredential(scan[1])
  /\ probed[scan] # "failed"
  /\ probed' = [probed EXCEPT ![scan] = "ok"]
  /\ ReturnHandle(Handle(scan), scan)
  /\ UNCHANGED <<cred, besideFactory>>

\* the trial call raises, or its reply is empty: the loop continues
TrialFails ==
  /\ ctor > 0
  /\ HasCredential(scan[1])
  /\ probed[scan] # "ok"
  /\ probed' = [probed EXCEPT ![scan] = "failed"]
  /\ MoveOn(AfterFailedTrial(scan), tried \cup {Handle(scan)}, skipped)
  /\ UNCHANGED <<cred, besideFactory>>

\* the providers' availability shifts: nothing seen so far need still hold.
\* A get_model call tries a pair once, so a shift while it scans shows only
\* in the next call: shifts are taken between calls.
ProvidersChange ==
  /\ probed # [pr \in Pairs |-> "unknown"]
  /\ scan = <<1, 1>> /\ tried = {} /\ skipped = {}
  /\ probed' = [pr \in Pairs |-> "unknown"]
  /\ UNCHANGED <<cred, pipe, ctor, scan, tried, skipped, handles, lastSel,
                 besideFactory>>

InitFactory ==
  /\ DetectorIdle
  /\ cred \in [Providers -> CredValues]
  /\ FactoryIdle
  /\ OrchIdle
  /\ RunIdle

NextFactory ==
  \/ BeginConstruct
  \/ SkipBackend
  \/ TrialSucceeds
  \/ TrialFails
  \/ ProvidersChange

SpecFactory == InitFactory /\ [][NextFactory]_vars

(***************************************************************************)
(* One call of analyze_multiple_articles on an orchestrator that has been  *)
(* built.  Each article's analyze_article coroutine is followed from one   *)
(* await to the next; the coroutines of a batch interleave at the awaits.  *)
(***************************************************************************)
MaxBatch == 3

ArticleIds == <<"A", "B", "C", "D", "E">>
ArticleAt(i) ==
  Article(Text("title " \o ArticleIds[i], 40, 6), Body(ArticleIds[i]))
Batches == {[i \in 1..n |-> ArticleAt(i)] : n \in 0..MaxBatch}

\* what the provider answers for one article: to the detection call, the
\* rewrite call, the title call and the explanation call
AnsweringScript ==
  [detect |-> TextReply(<<FENCEJSON>> \o JsonObject(Keys, TypicalValues) \o <<FENCE>>),
   rewrite |-> GenText(Text("neutral body", 480, 80)),
   title |-> GenText(Text("neutral title", 30, 5)),
   explain |-> GenText(Text("explanation", 200, 40))]
FailingScript ==
  [detect |-> RaiseReply, rewrite |-> GenRaise, title |-> GenRaise,
   explain |-> GenRaise]
OffSchemaScript ==
  [AnsweringScript EXCEPT
     !.detect = TextReply(JsonObject(Keys, OffSchemaValues))]
NoTextScript == [AnsweringScript EXCEPT !.rewrite = GenNone]
LowBiasScript ==
  [AnsweringScript EXCEPT
     !.detect = TextReply(JsonObject(Keys, EdgeValues))]
BatchScripts ==
  {AnsweringScript, FailingScript, OffSchemaScript, NoTextScript, LowBiasScript}

\* the handles of an orchestrator whose agents all selected the same pair
BuiltWith(pr) == [a \in Agents |-> Handle(pr)]
BatchHandles == {BuiltWith(<<b, 1>>) : b \in 1..Len(BackendOrder)}

NoOut == [pending |-> TRUE]
NewTask ==
  [pc |-> "created", analysis |-> GetFallbackResponse, neutral_text |-> NoneText,
   neutral_title |-> NoneText, out |-> NoOut]

Finished(i) == task[i].pc = "finished"

\* a coroutine that ended without giving its permit back
FinishKeepingPermit(i, t, out) ==
  /\ task' = [task EXCEPT ![i] = [t EXCEPT !.pc = "finished", !.out = out]]
  /\ permits' = permits
  /\ overtaken' = (overtaken \/ \E j \in 1..(i - 1) : ~Finished(j))

\* the coroutine of article i ends with `out`: leaving `async with` gives
\* the permit back
Finish(i, t, out) ==
  /\ task' = [task EXCEPT ![i] = [t EXCEPT !.pc = "finished", !.out = out]]
  /\ permits' = permits + 1
  /\ overtaken' = (overtaken \/ \E j \in 1..(i - 1) : ~Finished(j))

\* a coroutine that went from any stage straight to the explanation
AwaitExplainNext(i, t, pc) ==
  /\ task' = [task EXCEPT ![i] = [t EXCEPT !.pc = "explain"]]
  /\ UNCHANGED <<permits, overtaken>>

\* the coroutine of article i goes on to its next await
Await(i, t, pc) ==
  /\ task' = [task EXCEPT ![i] = [t EXCEPT !.pc = pc]]
  /\ UNCHANGED <<permits, overtaken>>

InitBatch ==
  /\ DetectorIdle
  /\ cred = [b \in Providers |-> "key"]
  /\ probed = [pr \in Pairs |-> "unknown"]
  /\ pipe = "ready"
  /\ ctor = 0
  /\ scan = <<1, 1>>
  /\ tried = {}
  /\ skipped = {}
  /\ handles \in BatchHandles
  /\ lastSel = NoSel
  /\ batch \in Batches
  /\ script \in [1..Len(batch) -> BatchScripts]
  /\ task = <<>>
  /\ permits = MaxConcurrent
  /\ bphase = "called"
  /\ results = <<>>
  /\ overtaken = FALSE
  /\ RunIdle

\* the body of analyze_multiple_articles starts: one coroutine per article,
\* then await asyncio.gather
BatchCall ==
  /\ bphase = "called"
  /\ bphase' = "running"
  /\ task' = [i \in 1..Len(batch) |-> NewTask]
  /\ UNCHANGED <<batch, script, permits, results, overtaken, handles,
                 besideOrch>>

\* a semaphore that let every coroutine in
SemaphoreOpen(value) == TRUE

\* asyncio.Semaphore: acquire goes through while the value is above zero
SemaphoreFree(value) == value > 0

\* async with self.semaphore: the coroutines are served in the order they
\* were created; then detect_biases is awaited
Acquire(i) ==
  /\ bphase = "running"
  /\ task[i].pc = "created"
  /\ \A j \in 1..(i - 1) : task[j].pc # "created"
  /\ SemaphoreFree(permits)
  /\ permits' = permits - 1
  /\ task' = [task EXCEPT ![i].pc = "detect"]
  /\ UNCHANGED <<batch, script, bphase, results, overtaken, handles,
                 besideOrch>>

\* detect_biases returns; rewrite_neutral builds its prompt and calls the
\* provider, or raises
DetectReturn(i) ==
  /\ bphase = "running"
  /\ task[i].pc = "detect"
  /\ \E bias_analysis \in
          {DetectBiases(batch[i].body, handles["detector"].provider,
                        script[i].detect)} :
       LET t == [task[i] EXCEPT !.analysis = bias_analysis]
       IN IF RewritePromptExc(bias_analysis) # ""
          THEN Finish(i, t, ExceptionObject(RewritePromptExc(bias_analysis)))
          ELSE Await(i, t, "rewrite")
  /\ UNCHANGED <<batch, script, bphase, results, handles, besideOrch>>

\* rewrite_neutral returns; the gate of the title rewrite is evaluated
RewriteReturn(i) ==
  /\ bphase = "running"
  /\ task[i].pc = "rewrite"
  /\ LET rewrite == RewriteNeutral(batch[i].body, task[i].analysis,
                                   handles["rewriter"].provider,
                                   script[i].rewrite)
         t == [task[i] EXCEPT !.neutral_text = rewrite.val,
                              !.neutral_title = batch[i].title]
     IN IF TitleGateExc(batch[i].title, task[i].analysis) # ""
        THEN Finish(i, t, ExceptionObject(
                            TitleGateExc(batch[i].title, task[i].analysis)))
        ELSE IF TitleGate(batch[i].title, task[i].analysis)
                  /\ TitleNeedsCall(task[i].analysis)
        THEN Await(i, t, "title")
        ELSE Await(i, t, "explain")
  /\ UNCHANGED <<batch, script, bphase, results, handles, besideOrch>>

\* rewrite_title_neutral returns
TitleReturn(i) ==
  /\ bphase = "running"
  /\ task[i].pc = "title"
  /\ LET title == RewriteTitleNeutral(batch[i].title, task[i].analysis,
                                      handles["rewriter"].provider,
                                      script[i].title)
     IN Await(i, [task[i] EXCEPT !.neutral_title = title.val], "explain")
  /\ UNCHANGED <<batch, script, bphase, results, handles, besideOrch>>

\* explain_biases returns; the result record is built and returned
ExplainReturn(i) ==
  /\ bphase = "running"
  /\ task[i].pc = "explain"
  /\ LET explanation == ExplainBiases(task[i].analysis,
                                      handles["explainer"].provider,
                                      script[i].explain)
     IN IF AssessExc(batch[i].body, task[i].neutral_text) # ""
        THEN Finish(i, task[i], ExceptionObject(
                       AssessExc(batch[i].body, task[i].neutral_text)))
        ELSE Finish(i, task[i],
                    ResultRecord(batch[i], task[i].analysis,
                                 task[i].neutral_text, task[i].neutral_title,
                                 explanation))
  /\ UNCHANGED <<batch, script, bphase, results, handles, besideOrch>>

\* every coroutine has ended: gather hands their outcomes back in the order
\* of its arguments and analyze_multiple_articles returns
BatchReturn ==
  /\ bphase = "running"
  /\ \A i \in 1..Len(batch) : Finished(i)
  /\ LET gathered == Gather([i \in 1..Len(batch) |-> task[i].out])
     IN IF gathered.exc # ""
        THEN bphase' = "raised" /\ results' = <<>>
        ELSE bphase' = "returned" /\ results' = ProcessResults(gathered.val)
  /\ UNCHANGED <<batch, script, task, permits, overtaken, handles, besideOrch>>

NextBatch ==
  \/ BatchCall
  \/ \E i \in 1..Len(batch) : Acquire(i)
  \/ \E i \in 1..Len(batch) : DetectReturn(i)
  \/ \E i \in 1..Len(batch) : RewriteReturn(i)
  \/ \E i \in 1..Len(batch) : TitleReturn(i)
  \/ \E i \in 1..Len(batch) : ExplainReturn(i)
  \/ BatchReturn

SpecBatch == InitBatch /\ [][NextBatch]_vars

\* The event loop runs a coroutine whenever one is ready (the body of
\* analyze_multiple_articles, a coroutine the semaphore lets in, gather once
\* all have ended), and every provider call that was awaited comes back
\* with a reply or an exception: the batch never stands still while one of
\* its steps is possible.
FairBatch == WF_vars(NextBatch)

SpecBatchFair == InitBatch /\ [][NextBatch]_vars /\ FairBatch

(***************************************************************************)
(* One article through analyze_multiple_articles, with every reply the     *)
(* provider may give to each of its four calls: an exception, no content,  *)
(* an empty text, a text.                                                  *)
(***************************************************************************)
\* analyses on either side of the title gate
WithOverall(n) == [TypicalValues EXCEPT !["overall_bias_score"] = IntV(n)]
OverallScores == {0, 19, 20, 21}
GateReplies ==
  {TextReply(JsonObject(Keys, WithOverall(n))) : n \in OverallScores}

ArticleInputs ==
  {ArticleAt(1), Article(EmptyText, Body("A")), Article(ArticleAt(1).title, ShortBody)}

RewriteReplies ==
  {GenRaise, GenNone, GenText(EmptyText), GenText(Text("neutral body", 480, 80))}
TitleReplies ==
  {GenRaise, GenNone, GenText(Text("neutral title", 30, 5)),
   GenText(Text("endless title", 300, 50))}
ExplainReplies ==
  {GenRaise, GenNone, GenText(EmptyText), GenText(Text("explanation", 200, 40))}

ArticleScripts ==
  [detect : DetectReplies \cup GateReplies, rewrite : RewriteReplies,
   title : TitleReplies,
   explain : ExplainReplies]

InitArticle ==
  /\ DetectorIdle
  /\ cred = [b \in Providers |-> "key"]
  /\ probed = [pr \in Pairs |-> "unknown"]
  /\ pipe = "ready"
  /\ ctor = 0
  /\ scan = <<1, 1>>
  /\ tried = {}
  /\ skipped = {}
  /\ handles \in BatchHandles
  /\ lastSel = NoSel
  /\ \E article \in ArticleInputs : batch = <<article>>
  /\ \E sc \in ArticleScripts : script = <<sc>>
  /\ task = <<>>
  /\ permits = MaxConcurrent
  /\ bphase = "called"
  /\ results = <<>>
  /\ overtaken = FALSE
  /\ RunIdle

SpecArticle == InitArticle /\ [][NextBatch]_vars

(***************************************************************************)
(* One call on one agent by itself: rewrite_neutral, rewrite_title_neutral,*)
(* explain_biases or _assess_rewrite_quality, on any analysis that         *)
(* detect_biases can return and any reply of the provider.                 *)
(***************************************************************************)
DetectableAnalyses ==
  {DetectBiases(Body("A"), "groq", reply) : reply \in DetectReplies}
  \cup {DetectBiases(Body("A"), "groq", reply) : reply \in GateReplies}

AgentBodies == {Body("A"), ShortBody, EmptyText}
AgentTitles == {Text("title A", 40, 6), Quoted(Text("title A", 40, 6))}
AgentRewriteReplies == RewriteReplies
AgentTitleReplies ==
  {GenRaise, GenNone, GenText(EmptyText)}
  \cup {GenText(t) : t \in TitleTexts}
  \cup {GenText(Quoted(t)) : t \in TitleTexts}
AgentExplainReplies == ExplainReplies

\* word counts of an original and of what the rewrite stage made of it
Words(id, n) == Text(id, 6 * n, n)
AssessPairs ==
  {<<Words("original", o), Words("rewritten", r)>> :
      o \in {0, 1, 100}, r \in {0, 1, 40, 49, 50, 51, 80, 100, 149, 150, 151}}
  \cup {<<Words("original", o), Words("original", o)>> : o \in {0, 1, 100}}
  \cup {<<Words("original", 100), NoneText>>}

AgentCalls ==
  [fn : {"rewrite_neutral"}, text : AgentBodies, title : {EmptyText},
   analysis : DetectableAnalyses, provider : Providers,
   reply : AgentRewriteReplies, rewritten : {EmptyText}]
  \cup
  [fn : {"rewrite_title_neutral"}, text : {EmptyText}, title : AgentTitles,
   analysis : DetectableAnalyses, provider : Providers,
   reply : AgentTitleReplies, rewritten : {EmptyText}]
  \cup
  [fn : {"explain_biases"}, text : {EmptyText}, title : {EmptyText},
   analysis : DetectableAnalyses, provider : Providers,
   reply : AgentExplainReplies, rewritten : {EmptyText}]
  \cup
  {[fn |-> "_assess_rewrite_quality", text |-> pair[1], title |-> EmptyText,
    analysis |-> GetFallbackResponse, provider |-> "", reply |-> GenRaise,
    rewritten |-> pair[2]] : pair \in AssessPairs}

InitAgent ==
  /\ DetectorIdle
  /\ cred = [b \in Providers |-> "unset"]
  /\ FactoryIdle
  /\ OrchIdle
  /\ store = <<>>
  /\ store0 = <<>>
  /\ rphase = "idle"
  /\ runs = 0
  /\ joined = NoJoin
  /\ agentCall \in AgentCalls
  /\ agentOut = NoAgentOut
  /\ DbIdle

AgentReturn(outcome, called) ==
  /\ agentOut' = [done |-> TRUE, exc |-> outcome.exc, text |-> outcome.val,
                  quality |-> "", called |-> called]
  /\ UNCHANGED <<agentCall, detectorVars, factoryVars, orchVars, runVars, joined,
                 dbCall, race>>

RewriteNeutralCall ==
  /\ agentCall.fn = "rewrite_neutral"
  /\ ~agentOut.done
  /\ AgentReturn(RewriteNeutral(agentCall.text, agentCall.analysis,
                                agentCall.provider, agentCall.reply),
                 RewritePromptExc(agentCall.analysis) = "")

RewriteTitleCall ==
  /\ agentCall.fn = "rewrite_title_neutral"
  /\ ~agentOut.done
  /\ AgentReturn(RewriteTitleNeutral(agentCall.title, agentCall.analysis,
                                     agentCall.provider, agentCall.reply),
                 /\ Comparable(Get(agentCall.analysis, "overall_bias_score", IntV(0)))
                 /\ TitleNeedsCall(agentCall.analysis))

ExplainCall ==
  /\ agentCall.fn = "explain_biases"
  /\ ~agentOut.done
  /\ AgentReturn(TextOutcome(ExplainBiases(agentCall.analysis,
                                           agentCall.provider, agentCall.reply)),
                 TRUE)

AssessCall ==
  /\ agentCall.fn = "_assess_rewrite_quality"
  /\ ~agentOut.done
  /\ LET exc == AssessExc(agentCall.text, agentCall.rewritten)
     IN agentOut' =
          [done |-> TRUE, exc |-> exc, text |-> EmptyText,
           quality |-> IF exc = "" THEN AssessRewriteQuality(agentCall.text,
                                                             agentCall.rewritten)
                       ELSE "",
           called |-> FALSE]
  /\ UNCHANGED <<agentCall, detectorVars, factoryVars, orchVars, runVars, joined,
                 dbCall, race>>

NextAgent ==
  \/ RewriteNeutralCall
  \/ RewriteTitleCall
  \/ ExplainCall
  \/ AssessCall

SpecAgent == InitAgent /\ [][NextAgent]_vars

(***************************************************************************)
(* The functions of news_db.py called one after the other, in any order,   *)
(* on a table that starts empty.  Three articles: the first two differ in  *)
(* title and in body and yet give the same string to the digest, the third *)
(* has the title of the first.                                             *)
(***************************************************************************)
MaxStamp == 3

StoredArticle(title, body, date) ==
  [title |-> Text(title, 2, 1), body |-> Text(body, 600, 100), date |-> date]
StoreArticles ==
  <<StoredArticle("ab", "c", 1), StoredArticle("a", "bc", 3),
    StoredArticle("ab", "d", 3)>>

StoreBatches ==
  {<<>>}
  \cup {<<StoreArticles[i]>> : i \in 1..3}
  \cup {<<StoreArticles[1], StoreArticles[j]>> : j \in 1..3}
  \cup {<<StoreArticles[3], StoreArticles[1]>>}
StoreFailures == {{}, {1}}

WrittenBias == BiasString(GetFallbackResponse)
LlmEntry(title) ==
  [title |-> Text(title, 2, 1), bias |-> WrittenBias,
   rewritten_article |-> Text("neutral body", 480, 80)]
LlmLists ==
  {<<LlmEntry("ab")>>, <<LlmEntry("a")>>, <<LlmEntry("zz")>>,
   <<LlmEntry("ab"), LlmEntry("a")>>}
StoreLimits == {1, 5}
Cutoffs == {2}

InitStore ==
  /\ DetectorIdle
  /\ cred = [b \in Providers |-> "unset"]
  /\ FactoryIdle
  /\ OrchIdle
  /\ store = <<>>
  /\ store0 = <<>>
  /\ rphase = "idle"
  /\ runs = 0
  /\ joined = NoJoin
  /\ AgentIdle
  /\ dbCall = NoDbCall
  /\ race = NoRace

besideStore ==
  <<detectorVars, factoryVars, orchVars, rphase, runs, joined, agentVars, race>>

Called(fn, data, failing, returned, now) ==
  [fn |-> fn, data |-> data, failing |-> failing, returned |-> returned,
   now |-> now]

\* add_news(data), in the same second as the call before it or later
AddNewsCall(data, failing) ==
  /\ \E now \in {dbCall.now, dbCall.now + 1} :
       /\ now <= MaxStamp
       /\ LET added == AddNews(store, data, now, failing)
          IN /\ store' = added.rows
             /\ dbCall' = Called("add_news", data, failing,
                                 added.actually_added, now)
  /\ store0' = store
  /\ UNCHANGED besideStore

\* prepare_data_for_llm(limit, processed_only=True)
PrepareCall(limit) ==
  /\ \E selected \in PrepareDataForLlm(store, limit) :
       dbCall' = Called("prepare_data_for_llm", <<limit>>, {}, selected,
                        dbCall.now)
  /\ store0' = store
  /\ UNCHANGED <<store, besideStore>>

\* add_bias(llm_data)
AddBiasCall(llm_data) ==
  /\ store' = AddBias(store, llm_data)
  /\ dbCall' = Called("add_bias", llm_data, {}, 0, dbCall.now)
  /\ store0' = store
  /\ UNCHANGED besideStore

\* clear_old_articles
ClearOldCall(cutoff) ==
  /\ store' = ClearOldArticles(store, cutoff)
  /\ dbCall' = Called("clear_old_articles", <<cutoff>>, {}, 0, dbCall.now)
  /\ store0' = store
  /\ UNCHANGED besideStore

\* clear_processed_articles returns the number of rows it deleted
ClearProcessedCall ==
  /\ store' = ClearProcessedArticles(store)
  /\ dbCall' = Called("clear_processed_articles", <<>>, {},
                      Len(store) - Len(ClearProcessedArticles(store)),
                      dbCall.now)
  /\ store0' = store
  /\ UNCHANGED besideStore

\* get_article_stats
StatsCall ==
  /\ dbCall' = Called("get_article_stats", <<>>, {}, GetArticleStats(store),
                      dbCall.now)
  /\ store0' = store
  /\ UNCHANGED <<store, besideStore>>

NextStore ==
  \/ \E data \in StoreBatches : \E failing \in StoreFailures :
       AddNewsCall(data, failing)
  \/ \E limit \in StoreLimits : PrepareCall(limit)
  \/ \E llm_data \in LlmLists : AddBiasCall(llm_data)
  \/ \E cutoff \in Cutoffs : ClearOldCall(cutoff)
  \/ ClearProcessedCall
  \/ StatsCall

SpecStore == InitStore /\ [][NextStore]_vars

(***************************************************************************)
(* Two add_news calls at the same time, each on its own connection, as two *)
(* processes running the pipeline make them.  Each call goes article by    *)
(* article through SELECT and INSERT and commits after its loop.  SQLite:  *)
(* the first INSERT of a connection opens its transaction and takes the    *)
(* write lock, kept until the commit; what a transaction has inserted is   *)
(* seen by no other connection before the commit; an INSERT that finds the *)
(* lock taken waits, and raises sqlite3.OperationalError when the wait     *)
(* lasts longer than the timeout; an INSERT of a digest the table holds    *)
(* raises sqlite3.IntegrityError.                                          *)
(***************************************************************************)
Connections == {1, 2}
Other(p) == 3 - p

RaceBatches ==
  <<{<<StoreArticles[1]>>, <<StoreArticles[3], StoreArticles[1]>>,
     <<StoreArticles[1], StoreArticles[1]>>},
    {<<StoreArticles[1]>>, <<StoreArticles[1], StoreArticles[3]>>,
     <<StoreArticles[2]>>}>>

RaceStamp == 1

\* a table whose content_hash column was not declared UNIQUE
NoUniqueConstraint(rows, content_hash) == FALSE

\* content_hash TEXT UNIQUE
UniqueViolated(rows, content_hash) ==
  \E r \in 1..Len(rows) : rows[r].content_hash = content_hash

\* the rows a statement of connection p works on
Visible(p) == store \o race.pending[p]

InitRace ==
  /\ DetectorIdle
  /\ cred = [b \in Providers |-> "unset"]
  /\ FactoryIdle
  /\ OrchIdle
  /\ store \in {<<>>, <<NewRow(StoreArticles[3], 0)>>}
  /\ store0 = store
  /\ rphase = "idle"
  /\ runs = 0
  /\ joined = NoJoin
  /\ AgentIdle
  /\ dbCall = NoDbCall
  /\ \E d1 \in RaceBatches[1], d2 \in RaceBatches[2] :
       race = [NoRace EXCEPT !.data = <<d1, d2>>, !.pc = <<"select", "select">>]

besideRace ==
  <<detectorVars, factoryVars, orchVars, store0, rphase, runs, joined,
    agentVars, dbCall>>

\* connection p turns to its next article, or to the commit after the last
NextArticle(r, p) ==
  [r EXCEPT !.i[p] = @ + 1,
            !.pc[p] = IF r.i[p] + 1 > Len(r.data[p]) THEN "commit" ELSE "select"]

\* SELECT id FROM data_news WHERE content_hash = ?
RaceSelect(p) ==
  /\ race.pc[p] = "select"
  /\ LET article == race.data[p][race.i[p]]
     IN IF \E r \in 1..Len(Visible(p)) :
             Visible(p)[r].content_hash = GenerateContentHash(article)
        THEN race' = NextArticle(race, p)
        ELSE race' = [race EXCEPT !.pc[p] = "insert"]
  /\ UNCHANGED <<store, besideRace>>

\* INSERT INTO data_news, the write lock being free or p's own
RaceInsert(p) ==
  /\ race.pc[p] = "insert"
  /\ race.lock \in {0, p}
  /\ LET article == race.data[p][race.i[p]]
         locked == [race EXCEPT !.lock = p]
     IN IF UniqueViolated(Visible(p), GenerateContentHash(article))
        THEN race' = NextArticle([locked EXCEPT !.refused[p] = @ + 1], p)
        ELSE race' = NextArticle(
                       [locked EXCEPT
                          !.pending[p] = Append(@, NewRow(article, RaceStamp)),
                          !.added[p] = @ + 1], p)
  /\ UNCHANGED <<store, besideRace>>

\* INSERT INTO data_news gives up waiting for the write lock
RaceInsertTimesOut(p) ==
  /\ race.pc[p] = "insert"
  /\ race.lock = Other(p)
  /\ race' = NextArticle([race EXCEPT !.refused[p] = @ + 1], p)
  /\ UNCHANGED <<store, besideRace>>

\* conn.commit(), and add_news returns actually_added
RaceCommit(p) ==
  /\ race.pc[p] = "commit"
  /\ store' = store \o race.pending[p]
  /\ race' = [race EXCEPT !.pc[p] = "done", !.pending[p] = <<>>,
                          !.lock = IF race.lock = p THEN 0 ELSE race.lock]
  /\ UNCHANGED besideRace

NextRace ==
  \/ \E p \in Connections : RaceSelect(p)
  \/ \E p \in Connections : RaceInsert(p)
  \/ \E p \in Connections : RaceInsertTimesOut(p)
  \/ \E p \in Connections : RaceCommit(p)

SpecRace == InitRace /\ [][NextRace]_vars

(***************************************************************************)
(* Two calls of analyze_multiple_articles on one orchestrator, as two      *)
(* requests served by the same pipeline object make them: the second call  *)
(* arrives while the first awaits gather, and its coroutines queue on the  *)
(* same semaphore.                                                         *)
(***************************************************************************)
SharedScripts == {AnsweringScript, OffSchemaScript}

\* the coroutines of call c
TasksOf(c) ==
  IF c = 1
  THEN 1..(IF joined.at = 0 THEN Len(task) ELSE joined.at - 1)
  ELSE IF joined.at = 0 THEN {} ELSE joined.at..Len(task)

Calls == IF joined.at = 0 THEN {1} ELSE {1, 2}

InitShared ==
  /\ DetectorIdle
  /\ cred = [b \in Providers |-> "key"]
  /\ probed = [pr \in Pairs |-> "unknown"]
  /\ pipe = "ready"
  /\ ctor = 0
  /\ scan = <<1, 1>>
  /\ tried = {}
  /\ skipped = {}
  /\ handles = BuiltWith(<<1, 1>>)
  /\ lastSel = NoSel
  /\ batch \in Batches
  /\ script \in [1..Len(batch) -> SharedScripts]
  /\ task = <<>>
  /\ permits = MaxConcurrent
  /\ bphase = "called"
  /\ results = <<>>
  /\ overtaken = FALSE
  /\ RunIdle

\* a second call with k more articles starts its body
JoinCall ==
  /\ bphase = "running"
  /\ joined = NoJoin
  /\ \E k \in 1..(MaxBatch - Len(batch)) :
       \E sc \in [1..k -> SharedScripts] :
         /\ batch' = batch \o [i \in 1..k |-> ArticleAt(Len(batch) + i)]
         /\ script' = script \o sc
         /\ task' = task \o [i \in 1..k |-> NewTask]
  /\ joined' = [at |-> Len(batch) + 1, returned |-> {}]
  /\ UNCHANGED <<permits, bphase, results, overtaken, handles, besideShared>>

\* the coroutines of call c have all ended: gather hands their outcomes
\* back and the call returns its list; results collects the lists returned
CallReturns(c) ==
  /\ bphase = "running"
  /\ c \in Calls \ joined.returned
  /\ \A i \in TasksOf(c) : Finished(i)
  /\ LET mine == SelectSeq([i \in 1..Len(task) |-> [at |-> i, out |-> task[i].out]],
                           LAMBDA e : e.at \in TasksOf(c))
         gathered == Gather([i \in 1..Len(mine) |-> mine[i].out])
     IN results' = results \o ProcessResults(gathered.val)
  /\ joined' = [joined EXCEPT !.returned = @ \cup {c}]
  /\ bphase' = IF joined.returned \cup {c} = Calls THEN "returned" ELSE bphase
  /\ UNCHANGED <<batch, script, task, permits, overtaken, handles, besideShared>>

NextShared ==
  \/ BatchCall
  \/ JoinCall
  \/ \E i \in 1..Len(batch) : Acquire(i)
  \/ \E i \in 1..Len(batch) : DetectReturn(i)
  \/ \E i \in 1..Len(batch) : RewriteReturn(i)
  \/ \E i \in 1..Len(batch) : TitleReturn(i)
  \/ \E i \in 1..Len(batch) : ExplainReturn(i)
  \/ \E c \in {1, 2} : CallReturns(c)

SpecShared == InitShared /\ [][NextShared]_vars

(***************************************************************************)
(* The pipeline from its construction on: main() and get_pipeline() build  *)
(* BiasDetectionPipeline, then run_full_pipeline is called, once or        *)
(* several times; it is followed from await to await, and its call of      *)
(* analyze_multiple_articles runs as above.                                *)
(***************************************************************************)
MaxRuns == 1

\* the article_count a run may be given
ArticleCounts == {1, 2}

\* BiasDetectionPipeline.__init__: BiasAnalysisOrchestrator(max_concurrent=3)
PipelineConcurrent == 3

\* what fetch_articles may give, what the provider may answer for an
\* article, and which insert of add_news may fail
Fetchable ==
  {<<ArticleAt(1)>>, <<ArticleAt(1), ArticleAt(2)>>,
   <<ArticleAt(2), ArticleAt(3)>>}
PipelineScripts == {AnsweringScript, OffSchemaScript}
InsertFailures == {{}, {1}}

\* the table before the first run: empty, or a processed and an
\* unprocessed row of an earlier process
ProcessedRow(article, stamp) ==
  [NewRow(article, stamp) EXCEPT
     !.bias = BiasString(GetFallbackResponse),
     !.rewritten_article = article.body]
InitialStores ==
  {<<>>, <<ProcessedRow(ArticleAt(5), 0), NewRow(ArticleAt(4), 0)>>}

\* the environments the pipeline is started in
PipelineCreds ==
  {[b \in Providers |-> "unset"],
   [b \in Providers |-> IF b = "claude" THEN "key" ELSE "empty"]}

\* a DetectorBuilt would do for a pipeline object whose first agent exists
DetectorBuilt == handles["detector"] # NoHandle

\* main.py line 205 and get_pipeline: run_full_pipeline is called on the
\* object the constructor returned
PipelineBuilt == pipe = "ready"

InitPipeline ==
  /\ DetectorIdle
  /\ cred \in PipelineCreds
  /\ FactoryIdle
  /\ batch = <<>>
  /\ script = <<>>
  /\ task = <<>>
  /\ permits = PipelineConcurrent
  /\ bphase = "none"
  /\ results = <<>>
  /\ overtaken = FALSE
  /\ store \in InitialStores
  /\ store0 = store
  /\ rphase = "idle"
  /\ runs = 0
  /\ joined = NoJoin
  /\ AgentIdle
  /\ DbIdle

\* run_full_pipeline is called: clear_processed_articles, then
\* await fetch_articles
StartRun(limit) ==
  /\ PipelineBuilt
  /\ rphase = "idle"
  /\ runs < limit
  /\ runs' = runs + 1
  /\ store' = ClearProcessedArticles(store)
  /\ rphase' = "fetching"
  /\ UNCHANGED <<store0, orchVars, besideRun>>

RunStart == StartRun(MaxRuns)

\* fetch_articles returns: add_news, prepare_data_for_llm, then
\* await analyze_multiple_articles, or an early return
FetchReturn(fetchable, failures, counts, scripts) ==
  /\ rphase = "fetching"
  /\ \E articles \in fetchable, failing \in failures,
        article_count \in counts :
       LET added == AddNews(store, articles, runs, failing)
       IN /\ store' = added.rows
          /\ IF added.actually_added = 0
             THEN /\ rphase' = "idle"
                  /\ UNCHANGED <<batch, script, bphase>>
             ELSE \E llm_articles \in PrepareDataForLlm(added.rows, article_count) :
                    IF llm_articles = <<>>
                    THEN /\ rphase' = "idle"
                         /\ UNCHANGED <<batch, script, bphase>>
                    ELSE /\ rphase' = "analyzing"
                         /\ batch' = llm_articles
                         /\ script' \in [1..Len(llm_articles) -> scripts]
                         /\ bphase' = "called"
  /\ UNCHANGED <<task, permits, results, overtaken, store0, runs, besideRun>>

RunFetched ==
  FetchReturn(Fetchable, InsertFailures, ArticleCounts, PipelineScripts)

\* analyze_multiple_articles has returned: _format_results_for_db,
\* add_bias, and run_full_pipeline returns
RunAnalyzed ==
  /\ rphase = "analyzing"
  /\ bphase \in {"returned", "raised"}
  /\ store' = IF bphase = "returned"
              THEN AddBias(store, FormatResultsForDb(results, batch))
              ELSE store
  /\ rphase' = "idle"
  /\ batch' = <<>>
  /\ script' = <<>>
  /\ task' = <<>>
  /\ bphase' = "none"
  /\ results' = <<>>
  /\ overtaken' = FALSE
  /\ UNCHANGED <<permits, store0, runs, besideRun>>

NextPipeline ==
  \/ BeginConstruct
  \/ SkipBackend
  \/ TrialSucceeds
  \/ TrialFails
  \/ ProvidersChange
  \/ RunStart
  \/ RunFetched
  \/ RunAnalyzed
  \/ BatchCall
  \/ \E i \in 1..Len(batch) : Acquire(i)
  \/ \E i \in 1..Len(batch) : DetectReturn(i)
  \/ \E i \in 1..Len(batch) : RewriteReturn(i)
  \/ \E i \in 1..Len(batch) : TitleReturn(i)
  \/ \E i \in 1..Len(batch) : ExplainReturn(i)
  \/ BatchReturn

SpecPipeline == InitPipeline /\ [][NextPipeline]_vars

(***************************************************************************)
(* run_full_pipeline called again and again on one pipeline object whose   *)
(* agents are built, starting from an empty table: what a run leaves in    *)
(* the table is what the next run finds.                                   *)
(***************************************************************************)
MaxRepeat == 2

RepeatFetchable == {<<ArticleAt(1)>>, <<ArticleAt(1), ArticleAt(2)>>}
RepeatFailures == {{}}
\* a provider whose rewrite came back as the empty string
EmptyTextScript == [AnsweringScript EXCEPT !.rewrite = GenText(EmptyText)]
RepeatScripts == {AnsweringScript, OffSchemaScript, EmptyTextScript}
\* the agents selected groq, or gemini
RepeatHandles == {BuiltWith(<<1, 1>>), BuiltWith(<<2, 1>>)}

InitRepeat ==
  /\ DetectorIdle
  /\ cred = [b \in Providers |-> "key"]
  /\ probed = [pr \in Pairs |-> "unknown"]
  /\ pipe = "ready"
  /\ ctor = 0
  /\ scan = <<1, 1>>
  /\ tried = {}
  /\ skipped = {}
  /\ handles \in RepeatHandles
  /\ lastSel = NoSel
  /\ batch = <<>>
  /\ script = <<>>
  /\ task = <<>>
  /\ permits = PipelineConcurrent
  /\ bphase = "none"
  /\ results = <<>>
  /\ overtaken = FALSE
  /\ store = <<>>
  /\ store0 = store
  /\ rphase = "idle"
  /\ runs = 0
  /\ joined = NoJoin
  /\ AgentIdle
  /\ DbIdle

RunAgain == StartRun(MaxRepeat)

RepeatFetched ==
  FetchReturn(RepeatFetchable, RepeatFailures, ArticleCounts, RepeatScripts)

NextRepeat ==
  \/ RunAgain
  \/ RepeatFetched
  \/ RunAnalyzed
  \/ BatchCall
  \/ \E i \in 1..Len(batch) : Acquire(i)
  \/ \E i \in 1..Len(batch) : DetectReturn(i)
  \/ \E i \in 1..Len(batch) : RewriteReturn(i)
  \/ \E i \in 1..Len(batch) : TitleReturn(i)
  \/ \E i \in 1..Len(batch) : ExplainReturn(i)
  \/ BatchReturn

SpecRepeat == InitRepeat /\ [][NextRepeat]_vars

(***************************************************************************)
(*                         PROPERTIES                                      *)
(***************************************************************************)

(***************************************************************************)
(* The payload of a raw text, read off the text itself: the tokens from    *)
(* its first "{" to its last "}".                                          *)
(***************************************************************************)
FirstBrace(text) == Find(text.toks, LB)
LastBrace(text) == RFind(text.toks, RB)

HasObject(text) ==
  /\ text.kind = "text"
  /\ FirstBrace(text) > 0
  /\ LastBrace(text) > FirstBrace(text)
  /\ \A i \in (FirstBrace(text) + 1)..(LastBrace(text) - 1) :
       text.toks[i].t \in {"field", "ws"}

MemberAt(text, key) ==
  {i \in FirstBrace(text)..LastBrace(text) :
     text.toks[i].t = "field" /\ text.toks[i].k = key}

PayloadKeys(text) == {key \in Keys : MemberAt(text, key) # {}}

PayloadValue(text, key) ==
  text.toks[CHOOSE i \in MemberAt(text, key) :
              \A j \in MemberAt(text, key) : j <= i].v

HasMandatory(text) ==
  {"emotional_bias_score", "framing_bias_score", "overall_bias_score"}
    \subseteq PayloadKeys(text)

FallbackMarker ==
  [k \in Keys |->
     CASE k = "biased_phrases" -> ListV(0)
       [] k = "summary" ->
            StrV("Bias analysis unavailable - using fallback response")
       [] OTHER -> IntV(50)]

(***************************************************************************)
(* C1: the response normalizer is total.  Every call of _extract_json,     *)
(* whatever its raw text (missing, empty, prose, JSON wrapped in prose or  *)
(* in a code fence), returns without an exception, and what it returns is  *)
(* the fallback marker or an analysis that holds the three mandatory       *)
(* scores and only members the text gives.                                 *)
(***************************************************************************)
C1_NormalizerTotal ==
  ncall = "extract" =>
    /\ normalized.exc = ""
    /\ \/ normalized.val = FallbackMarker
       \/ /\ {"emotional_bias_score", "framing_bias_score",
              "overall_bias_score"} \subseteq DOMAIN normalized.val
          /\ DOMAIN normalized.val \subseteq Keys
          /\ \A k \in DOMAIN normalized.val :
               \E i \in 1..Len(rawText.toks) :
                  rawText.toks[i] = Field(k, normalized.val[k])

\* a fenced payload between prose was parsed, and a text that does not parse
\* gave the marker
C1_Witness ==
  /\ ncall = "extract"
  /\ rawText.kind = "text" /\ Len(rawText.toks) > 2
  /\ rawText.toks[1] = FENCEJSON
  /\ rawText.toks[Len(rawText.toks)] = TXT
  /\ normalized.exc = ""
  /\ normalized.val # FallbackMarker

(***************************************************************************)
(* C2: a raw text that is missing, that holds no parseable object, or      *)
(* whose object lacks one of the three mandatory scores, gives exactly the *)
(* fallback marker: four scores of 50, no phrases, the fixed summary.      *)
(***************************************************************************)
C2_FallbackOnInvalid ==
  (ncall = "extract" /\ ~(HasObject(rawText) /\ HasMandatory(rawText))) =>
    (normalized.exc = "" /\ normalized.val = FallbackMarker)

\* an object that parses and lacks only the framing score gave the marker
C2_Witness ==
  /\ ncall = "extract"
  /\ HasObject(rawText)
  /\ PayloadKeys(rawText) = Keys \ {"framing_bias_score"}
  /\ normalized.val = FallbackMarker

(***************************************************************************)
(* C3 as stated: a payload with the three mandatory scores comes back      *)
(* unchanged, and every optional member it omits is in the returned        *)
(* analysis with its zero or empty value.                                  *)
(***************************************************************************)
ZeroValue(key) ==
  CASE key = "biased_phrases" -> ListV(0)
    [] key = "summary" -> StrV("")
    [] OTHER -> IntV(0)

C4_ScoresInRange ==
  ncall = "detect" =>
    \A k \in ScoreKeys :
       /\ k \in DOMAIN detected
       /\ detected[k].ty = "int"
       /\ detected[k].n >= 0
       /\ detected[k].n <= 100

(***************************************************************************)
(* The priority of a (provider, model) handle: Groq before Gemini before   *)
(* Claude, and within a provider the place in its list of models.          *)
(***************************************************************************)
ProviderRank(provider) ==
  CASE provider = "groq" -> 1
    [] provider = "gemini" -> 2
    [] provider = "claude" -> 3

ModelRank(h) ==
  CHOOSE i \in 1..Len(ModelsOf(h.provider)) : ModelsOf(h.provider)[i] = h.model

AllHandles ==
  UNION {{[provider |-> b, model |-> ModelsOf(b)[i]] :
            i \in 1..Len(ModelsOf(b))} : b \in {"groq", "gemini", "claude"}}

ComesBefore(g, h) ==
  \/ ProviderRank(g.provider) < ProviderRank(h.provider)
  \/ g.provider = h.provider /\ ModelRank(g) < ModelRank(h)

(***************************************************************************)
(* C5: get_model returns the first (backend, model) pair, in the order     *)
(* Groq, Gemini, Claude and within a backend in listed order, whose        *)
(* backend has a credential and whose trial call succeeds: every pair      *)
(* before the one returned is of a backend without a credential or was     *)
(* tried and failed, and no pair after it was tried.                       *)
(***************************************************************************)
C5_FirstUsablePair ==
  (lastSel.agent # "" /\ ~lastSel.raised) =>
    /\ lastSel.handle \in AllHandles
    /\ cred[lastSel.handle.provider] = "key"
    /\ lastSel.handle \notin lastSel.tried
    /\ \A g \in AllHandles :
         ComesBefore(g, lastSel.handle) =>
           (cred[g.provider] # "key" \/ g \in lastSel.tried)
    /\ \A g \in lastSel.tried :
         ComesBefore(g, lastSel.handle) /\ cred[g.provider] = "key"

\* Groq has a key and all its models failed, Gemini has no key, and the
\* second model of Claude was returned
C5_Witness ==
  /\ lastSel.agent = "detector" /\ ~lastSel.raised
  /\ lastSel.handle = [provider |-> "claude", model |-> CLAUDE_MODELS[2]]
  /\ cred["groq"] = "key" /\ cred["gemini"] = "empty"
  /\ Cardinality(lastSel.tried) = Len(GROQ_MODELS) + 1

(***************************************************************************)
(* C6: get_model raises exactly when every backend is unusable, that is    *)
(* lacks a credential or had each of its models fail its trial; when it    *)
(* does not raise it returns a handle of a backend with a credential       *)
(* whose trial did not fail.                                               *)
(***************************************************************************)
Unusable(b) ==
  \/ cred[b] # "key"
  \/ \A i \in 1..Len(ModelsOf(b)) :
        [provider |-> b, model |-> ModelsOf(b)[i]] \in lastSel.tried

C6_FailsIffAllUnusable ==
  lastSel.agent # "" =>
    /\ lastSel.raised <=> \A b \in {"groq", "gemini", "claude"} : Unusable(b)
    /\ ~lastSel.raised =>
         /\ lastSel.handle \in AllHandles
         /\ cred[lastSel.handle.provider] = "key"
         /\ lastSel.handle \notin lastSel.tried
    /\ lastSel.raised => lastSel.handle = NoHandle

\* Gemini and Claude have keys, all eight of their models failed, Groq has
\* none: get_model raised
C6_Witness ==
  /\ lastSel.raised
  /\ cred["groq"] = "unset" /\ cred["gemini"] = "key" /\ cred["claude"] = "key"
  /\ Cardinality(lastSel.tried) = Len(GEMINI_MODELS) + Len(CLAUDE_MODELS)


(***************************************************************************)
(* C7: when get_model finds every backend unusable the constructor of the  *)
(* pipeline raises and no pipeline object exists; and as long as none      *)
(* exists no batch work has been done: run_full_pipeline has not been      *)
(* called, so nothing was fetched, the table holds the rows it held at the *)
(* start, and no analyze_article coroutine was created.                    *)
(***************************************************************************)
NoBatchWork ==
  /\ runs = 0
  /\ rphase = "idle"
  /\ store = store0
  /\ bphase = "none"
  /\ batch = <<>>
  /\ task = <<>>
  /\ results = <<>>

C7_FailsBeforeBatchWork ==
  /\ (lastSel.raised /\ ctor = 0) => pipe = "none"
  /\ pipe # "ready" => NoBatchWork

\* construction has just failed on a table that holds rows: every backend
\* was skipped or had all its trial calls fail
C7_Witness ==
  /\ lastSel.raised
  /\ ctor = 0
  /\ lastSel.tried # {}
  /\ \A pr \in Pairs :
       HasCredential(pr[1]) => Handle(pr) \in lastSel.tried
  /\ pipe = "none"
  /\ store0 # <<>>
  /\ NoBatchWork

(***************************************************************************)
(* C8: the sequence analyze_multiple_articles returns has the length of    *)
(* its input, and its element at index i is what the pipeline of the       *)
(* article at index i ended with (its result record, which carries that    *)
(* article's body and title, or an error record if it raised), in whatever *)
(* order the pipelines finished.                                           *)
(***************************************************************************)
BelongsTo(r, i) ==
  IF IsError(r) THEN IsException(task[i].out)
  ELSE /\ r = task[i].out
       /\ r.original_text = batch[i].body
       /\ r.original_title = batch[i].title

C8_SameLengthSameOrder ==
  bphase = "returned" =>
    /\ Len(results) = Len(batch)
    /\ \A i \in 1..Len(batch) : BelongsTo(results[i], i)

\* a batch of three has returned though a later article finished first
C8_Witness ==
  /\ bphase = "returned"
  /\ Len(batch) = 3
  /\ overtaken
  /\ \E i \in 1..3 : IsError(results[i])
  /\ \E i \in 1..3 : ~IsError(results[i])

(***************************************************************************)
(* C9: an exception that escapes the pipeline of one article becomes an    *)
(* error record at that article's index; the call itself does not raise,   *)
(* every sibling runs to its end, and the element of every sibling is      *)
(* exactly what its pipeline gives when it runs on its own.                *)
(***************************************************************************)
Alone(i) == AnalyzeArticle(batch[i], script[i], handles)

C9_FailureStaysInItsSlot ==
  /\ bphase # "raised"
  /\ bphase = "returned" =>
       /\ DOMAIN results = DOMAIN batch
       /\ \A i \in DOMAIN batch :
            /\ Finished(i)
            /\ IF IsException(Alone(i))
               THEN results[i] = ErrorRecord(Alone(i).exception)
               ELSE results[i] = Alone(i)

\* a returned batch in which one pipeline raised and two did not
C9_Witness ==
  /\ bphase = "returned"
  /\ \E i \in DOMAIN batch :
       /\ IsException(task[i].out)
       /\ IsError(results[i])
       /\ Cardinality({j \in DOMAIN batch : ~IsError(results[j])}) = 2

(***************************************************************************)
(* C10 as stated: in a batch [A, B, C] where the provider fails every call *)
(* made for B and answers those made for A and C, the call returns three   *)
(* elements of which B's, and only B's, is an error record.                *)
(***************************************************************************)
ProviderFailsOnlyB ==
  /\ Len(batch) = 3
  /\ script[2] = FailingScript
  /\ script[1] = AnsweringScript
  /\ script[3] = AnsweringScript

C10_OnlyBMarkedError ==
  (bphase = "returned" /\ ProviderFailsOnlyB) =>
    /\ Len(results) = 3
    /\ IsError(results[2])
    /\ ~IsError(results[1])
    /\ ~IsError(results[3])

(***************************************************************************)
(* C10 as the code has it: in that batch the call returns three elements   *)
(* none of which is an error record.  B's element is B's result record:    *)
(* its analysis is the fallback response, its neutral version and neutral  *)
(* title are B's own body and title, its explanation the fixed             *)
(* unavailability string.                                                  *)
(***************************************************************************)
C10_BDegradesWithoutError ==
  (bphase = "returned" /\ ProviderFailsOnlyB) =>
    /\ Len(results) = 3
    /\ \A i \in 1..3 : ~IsError(results[i])
    /\ results[2].original_text = batch[2].body
    /\ results[2].analysis = GetFallbackResponse
    /\ results[2].neutral_version = batch[2].body
    /\ results[2].neutral_title = batch[2].title
    /\ results[2].explanation = ExplainUnavailable
    /\ results[2].rewrite_quality = "no_change"

C10_Witness ==
  /\ bphase = "returned"
  /\ ProviderFailsOnlyB
  /\ results[2].analysis = GetFallbackResponse
  /\ results[1].analysis # GetFallbackResponse


(***************************************************************************)
(* C11: on one orchestrator the pipelines in flight, those that have       *)
(* entered the semaphore and not yet returned, never number more than      *)
(* max_concurrent, whatever the size of the batch and also while the       *)
(* coroutines of two calls share the orchestrator.                         *)
(***************************************************************************)
InFlight ==
  {i \in DOMAIN task : task[i].pc \in {"detect", "rewrite", "title", "explain"}}

C11_AtMostMaxConcurrent == Cardinality(InFlight) <= MaxConcurrent

\* the cap is reached by pipelines of both calls while another one waits
C11_Witness ==
  /\ joined.at > 0
  /\ Cardinality(InFlight) = MaxConcurrent
  /\ InFlight \cap TasksOf(1) # {}
  /\ InFlight \cap TasksOf(2) # {}
  /\ \E i \in DOMAIN task : task[i].pc = "created"


(***************************************************************************)
(* C12: when the provider call of the detection stage raises,              *)
(* detect_biases returns the fallback response instead of raising; the     *)
(* pipeline goes on from it, and the article comes back as a result        *)
(* record, not an error record, whose analysis is the fallback response.   *)
(* (The one way to an error record from there is a rewrite stage that      *)
(* hands back no text at all, which has nothing to do with detection.)     *)
(***************************************************************************)
DetectionCallFails(i) ==
  /\ batch[i].body.chars >= MinArticleChars
  /\ script[i].detect = RaiseReply

RewriteStageFailed ==
  \/ RewritePromptExc(agentCall.analysis) # ""
  \/ agentCall.reply.kind = "raise"

C13_RewriteNeverFails ==
  (agentCall.fn = "rewrite_neutral" /\ agentOut.done) =>
    /\ agentOut.exc = ""
    /\ RewriteStageFailed => agentOut.text = agentCall.text

\* C13, the part the code keeps: a provider call that raises gives the
\* original body back
C13_CallFailureGivesOriginal ==
  (/\ agentCall.fn = "rewrite_neutral"
   /\ agentOut.done
   /\ agentOut.called
   /\ agentCall.reply.kind = "raise") =>
    agentOut.exc = "" /\ agentOut.text = agentCall.text


(***************************************************************************)
(* C14: in analyze_article the provider is called for the title only when  *)
(* the detected overall score is greater than 20; in every other case the  *)
(* result's neutral title is the original title.                           *)
(***************************************************************************)
OverallOf(i) == Get(task[i].analysis, "overall_bias_score", IntV(0))
AboveGate(i) == Comparable(OverallOf(i)) /\ NumberOf(OverallOf(i)) > 20

C14_TitleCallOnlyAboveGate ==
  \A i \in DOMAIN task :
    /\ task[i].pc = "title" => AboveGate(i)
    /\ (Finished(i) /\ ~IsException(task[i].out) /\ ~AboveGate(i)) =>
         task[i].out.neutral_title = batch[i].title
    /\ (bphase = "returned" /\ ~IsError(results[i]) /\ ~AboveGate(i)) =>
         results[i].neutral_title = batch[i].title

\* an article scored exactly 20 whose title the provider would have reworded
\* has come back with its own title
C14_Witness ==
  /\ bphase = "returned"
  /\ Len(batch) = 1
  /\ batch[1].title # EmptyText
  /\ OverallOf(1) = IntV(20)
  /\ script[1].title = GenText(Text("neutral title", 30, 5))
  /\ ~IsError(results[1])
  /\ results[1].neutral_title = batch[1].title


(***************************************************************************)
(* C15: for every analysis whose overall score is at most 20, exactly 20   *)
(* included, rewrite_title_neutral returns the original title as it is     *)
(* and calls no provider.                                                  *)
(***************************************************************************)
TitleCallDone == agentCall.fn = "rewrite_title_neutral" /\ agentOut.done
CallOverall == Get(agentCall.analysis, "overall_bias_score", IntV(0))

C15_NoCallAtOrBelow20 ==
  (/\ TitleCallDone
   /\ Comparable(CallOverall)
   /\ NumberOf(CallOverall) <= 20) =>
    /\ agentOut.exc = ""
    /\ ~agentOut.called
    /\ agentOut.text = agentCall.title

\* C15, what the code keeps: the same for every score below 20
C15_NoCallBelow20 ==
  (/\ TitleCallDone
   /\ Comparable(CallOverall)
   /\ NumberOf(CallOverall) < 20) =>
    /\ agentOut.exc = ""
    /\ ~agentOut.called
    /\ agentOut.text = agentCall.title


(***************************************************************************)
(* C16: once the provider has been called for the title, the cleaned title *)
(* is returned only if its length, quote characters removed, is strictly   *)
(* between 10 and 120; for every other length, 10 and 120 themselves       *)
(* included, and whenever the call fails, the original title is returned.  *)
(***************************************************************************)
\* the text the length test is applied to: the reply, or with Groq the
\* original title standing in for an empty reply
NeutralTitleOfCall ==
  IF agentCall.provider = "groq"
       /\ (agentCall.reply.kind = "none" \/ agentCall.reply.text = EmptyText)
  THEN agentCall.title
  ELSE agentCall.reply.text

TitleCallFailed ==
  \/ agentCall.reply.kind = "raise"
  \/ agentCall.reply.kind = "none" /\ agentCall.provider # "groq"

ExplainCallDone == agentCall.fn = "explain_biases" /\ agentOut.done

ExplainCallFailed ==
  \/ agentCall.reply.kind = "raise"
  \/ agentCall.reply.kind = "none" /\ agentCall.provider = "claude"

C17_ExplainFailureGivesFixedString ==
  ExplainCallDone =>
    /\ agentOut.exc = ""
    /\ ExplainCallFailed => agentOut.text = ExplainUnavailable

\* the provider has raised on an off-schema analysis and the fixed string
\* came back
C17_Witness ==
  /\ ExplainCallDone
  /\ agentCall.reply = GenRaise
  /\ ~Comparable(Get(agentCall.analysis, "overall_bias_score", IntV(0)))
  /\ agentOut.exc = ""
  /\ agentOut.text = ExplainUnavailable


(***************************************************************************)
(* C18: _assess_rewrite_quality on an original of o words and a rewrite of *)
(* r words: identical texts give no_change; otherwise |o - r| > 0.5 * o    *)
(* gives significant_change and anything else moderate_change.  So o =     *)
(* 100, r = 40 is significant_change and o = 100, r = 80 moderate_change.  *)
(***************************************************************************)
AssessCallDone ==
  /\ agentCall.fn = "_assess_rewrite_quality"
  /\ agentOut.done
  /\ agentOut.exc = ""

C18_QualityByWordCount ==
  AssessCallDone =>
    LET o == agentCall.text.words
        r == agentCall.rewritten.words
        d == IF o > r THEN o - r ELSE r - o
    IN /\ agentCall.text = agentCall.rewritten => agentOut.quality = "no_change"
       /\ (agentCall.text # agentCall.rewritten /\ 2 * d > o) =>
            agentOut.quality = "significant_change"
       /\ (agentCall.text # agentCall.rewritten /\ 2 * d <= o) =>
            agentOut.quality = "moderate_change"
       /\ (o = 100 /\ r = 40) => agentOut.quality = "significant_change"
       /\ (o = 100 /\ r = 80) => agentOut.quality = "moderate_change"

\* 100 words rewritten in 40 have been classified
C18_Witness ==
  /\ AssessCallDone
  /\ agentCall.text.words = 100
  /\ agentCall.rewritten.words = 40
  /\ agentOut.quality = "significant_change"


(***************************************************************************)
(* C19: add_news is idempotent on content.  The same article, title and    *)
(* body identical, given twice in one call or in two calls one after the   *)
(* other, adds one row and the counts returned add up to 1, not 2; an      *)
(* article whose digest is stored is skipped and the stored row stays as   *)
(* it is.                                                                  *)
(***************************************************************************)
Digests(rows) == {rows[r].content_hash : r \in 1..Len(rows)}
RowsWith(rows, article) ==
  {r \in 1..Len(rows) : rows[r].content_hash = GenerateContentHash(article)}

AddNewsDone == dbCall.fn = "add_news" /\ dbCall.failing = {}

\* after a call: store0 is the table the call found
C19_AfterOneCall ==
  AddNewsDone =>
    /\ dbCall.returned = Len(store) - Len(store0)
    /\ Len(store0) <= Len(store)
    /\ \A r \in 1..Len(store0) : store[r] = store0[r]
    /\ \A i \in 1..Len(dbCall.data) :
         /\ Cardinality(RowsWith(store, dbCall.data[i])) = 1
         /\ GenerateContentHash(dbCall.data[i]) \in Digests(store0) =>
              RowsWith(store, dbCall.data[i]) = RowsWith(store0, dbCall.data[i])
    /\ (Len(dbCall.data) = 2 /\ dbCall.data[1] = dbCall.data[2]) =>
         dbCall.returned =
           IF GenerateContentHash(dbCall.data[1]) \in Digests(store0)
           THEN 0 ELSE 1
    /\ AddNews(store, dbCall.data, dbCall.now, {}) =
         [rows |-> store, actually_added |-> 0]

\* the same call made again right after
C19_SecondCall ==
  (/\ AddNewsDone
   /\ dbCall'.fn = "add_news"
   /\ dbCall'.failing = {}
   /\ dbCall'.data = dbCall.data) =>
    /\ store' = store
    /\ dbCall'.returned = 0
    /\ dbCall.returned + dbCall'.returned <= Len(dbCall.data)

C19_UpsertIdempotent == []C19_AfterOneCall /\ [][C19_SecondCall]_vars

\* one call has been given the same new article twice and has added one row
C19_Witness ==
  /\ AddNewsDone
  /\ Len(dbCall.data) = 2
  /\ dbCall.data[1] = dbCall.data[2]
  /\ dbCall.returned = 1
  /\ Len(store) = Len(store0) + 1
  /\ Len(store0) = 1


(***************************************************************************)
(* C20: whatever sequence of add_news, prepare_data_for_llm, add_bias,     *)
(* clear_old_articles and clear_processed_articles has run, no two rows    *)
(* of the table have the same digest; so the unique count of               *)
(* get_article_stats never exceeds its total, and neither does its         *)
(* processed count.                                                        *)
(***************************************************************************)
C20_DigestsUnique ==
  /\ \A r1, r2 \in 1..Len(store) :
       store[r1].content_hash = store[r2].content_hash => r1 = r2
  /\ GetArticleStats(store).unique_content <= GetArticleStats(store).total
  /\ GetArticleStats(store).unique_content = Len(store)
  /\ GetArticleStats(store).processed <= GetArticleStats(store).total
  /\ dbCall.fn = "get_article_stats" =>
       /\ dbCall.returned.unique_content <= dbCall.returned.total
       /\ dbCall.returned.processed <= dbCall.returned.total

\* get_article_stats has counted two rows, one of them written back, after
\* inserts in three different seconds
C20_Witness ==
  /\ dbCall.fn = "get_article_stats"
  /\ dbCall.returned = [total |-> 2, processed |-> 1, unique_content |-> 2]
  /\ dbCall.now = MaxStamp


(***************************************************************************)
(* C21: prepare_data_for_llm(limit, processed_only=True) returns at most   *)
(* limit articles, each from a row whose bias is still NULL, the most      *)
(* recently inserted first; an article whose analysis has been written     *)
(* back is never returned.                                                 *)
(***************************************************************************)
PrepareDone == dbCall.fn = "prepare_data_for_llm"

\* the row an article of the returned list was read from; rows are kept in
\* the order of their insertion
RowOf(article) ==
  CHOOSE r \in 1..Len(store) :
    store[r].content_hash = GenerateContentHash(article)

SelectedAreUnprocessed ==
  /\ Len(dbCall.returned) <= dbCall.data[1]
  /\ \A i \in 1..Len(dbCall.returned) :
       /\ RowsWith(store, dbCall.returned[i]) # {}
       /\ store[RowOf(dbCall.returned[i])].bias = NoValue

C21_SelectLatestUnprocessed ==
  PrepareDone =>
    /\ SelectedAreUnprocessed
    /\ \A i, j \in 1..Len(dbCall.returned) :
         i < j => RowOf(dbCall.returned[i]) > RowOf(dbCall.returned[j])

\* C21, what the code keeps: the list follows created_at, which is the
\* second of the insertion
C21_SelectByTimestamp ==
  PrepareDone =>
    /\ SelectedAreUnprocessed
    /\ \A i, j \in 1..Len(dbCall.returned) :
         i < j => store[RowOf(dbCall.returned[i])].created_at
                    >= store[RowOf(dbCall.returned[j])].created_at


(***************************************************************************)
(* C22: add_bias for a result computed from stored article A sets bias and *)
(* rewritten_article of A's row and leaves those two fields of every other *)
(* row as they were, also in the rows of other articles that have A's      *)
(* title.                                                                  *)
(***************************************************************************)
\* add_bias was given one entry; store0 is the table it found
WriteBackDone ==
  /\ dbCall.fn = "add_bias"
  /\ Len(dbCall.data) = 1
  /\ Len(store) = Len(store0)

TitledRows == {r \in 1..Len(store0) : store0[r].title = dbCall.data[1].title}

SameAnalysisFields(r) ==
  /\ store[r].bias = store0[r].bias
  /\ store[r].rewritten_article = store0[r].rewritten_article

C22_WriteBackTouchesOneRow ==
  (WriteBackDone /\ TitledRows # {}) =>
    \E a \in TitledRows :
      /\ store[a].bias = dbCall.data[1].bias
      /\ store[a].rewritten_article = dbCall.data[1].rewritten_article
      /\ \A r \in 1..Len(store) : r # a => SameAnalysisFields(r)

\* C22, what the code keeps: the rows of the entry's title are set, the
\* rows of every other title are left alone
C22_WriteBackByTitle ==
  WriteBackDone =>
    \A r \in 1..Len(store) :
      IF r \in TitledRows
      THEN /\ store[r].bias = dbCall.data[1].bias
           /\ store[r].rewritten_article = dbCall.data[1].rewritten_article
      ELSE store[r] = store0[r]


(***************************************************************************)
(* C23: a storage error on the insert of one article does not abort        *)
(* add_news: the articles after it are still processed, the failing one    *)
(* is not counted, and the count returned is the number of rows inserted.  *)
(***************************************************************************)
InsertFailed ==
  /\ dbCall.fn = "add_news"
  /\ dbCall.failing \cap (1..Len(dbCall.data)) # {}

C23_InsertErrorSkipsOneArticle ==
  InsertFailed =>
    /\ dbCall.returned = Len(store) - Len(store0)
    /\ \A r \in 1..Len(store0) : store[r] = store0[r]
    /\ \A i \in 1..Len(dbCall.data) :
         i \notin dbCall.failing =>
           Cardinality(RowsWith(store, dbCall.data[i])) = 1
    /\ \A i \in dbCall.failing \cap (1..Len(dbCall.data)) :
         (\A j \in 1..Len(dbCall.data) :
            j \notin dbCall.failing =>
              GenerateContentHash(dbCall.data[j])
                # GenerateContentHash(dbCall.data[i])) =>
           RowsWith(store, dbCall.data[i]) = RowsWith(store0, dbCall.data[i])

\* the insert of the first of two new articles failed and the second has
\* been inserted and counted
C23_Witness ==
  /\ InsertFailed
  /\ store0 = <<>>
  /\ Len(dbCall.data) = 2
  /\ dbCall.failing = {1}
  /\ dbCall.returned = 1
  /\ Len(store) = 1
  /\ RowsWith(store, dbCall.data[2]) = {1}
  /\ RowsWith(store, dbCall.data[1]) = {}


(***************************************************************************)
(* C24: however two add_news calls that both hold the same article are     *)
(* interleaved, the table ends with exactly one row of that digest and     *)
(* the two counts returned add up to 1 for it: the call that loses the     *)
(* race never inserts a second row.                                        *)
(***************************************************************************)
RaceOver == race.pc = <<"done", "done">>

\* the digests both calls were given
SharedDigests ==
  {GenerateContentHash(race.data[1][i]) : i \in 1..Len(race.data[1])}
  \cap {GenerateContentHash(race.data[2][i]) : i \in 1..Len(race.data[2])}

C24_RaceInsertsOnce ==
  /\ \A r1, r2 \in 1..Len(store) :
       store[r1].content_hash = store[r2].content_hash => r1 = r2
  /\ RaceOver =>
       /\ \A h \in SharedDigests :
            Cardinality({r \in 1..Len(store) : store[r].content_hash = h}) = 1
       /\ race.added[1] + race.added[2] = Len(store) - Len(store0)
       /\ \A r \in 1..Len(store0) : store[r] = store0[r]

\* both calls passed the duplicate check for the same article; one has
\* inserted it, the other has been refused, and both have returned
C24_Witness ==
  /\ RaceOver
  /\ store0 = <<>>
  /\ race.data = <<<<StoreArticles[1]>>, <<StoreArticles[1]>>>>
  /\ race.added[1] + race.added[2] = 1
  /\ race.refused[1] + race.refused[2] = 1
  /\ Len(store) = 1


(***************************************************************************)
(* C25: one provider handle is selected once, before any batch is fanned   *)
(* out; detection, body rewrite, title rewrite and explanation of every    *)
(* article of every batch use that one (backend, model) handle, and it     *)
(* does not change while a batch runs.                                     *)
(***************************************************************************)
BatchUnderWay == bphase \in {"called", "running"}

AllSelected ==
  /\ pipe = "ready"
  /\ ctor = 0
  /\ \A a \in Agents : handles[a] # NoHandle

KeyMissing(b) == cred[BackendOrder[b]] # "key"

\* no pair of a backend without key has ever been tried
NoTrialWithoutKey ==
  /\ \A pr \in Pairs : KeyMissing(pr[1]) => probed[pr] = "unknown"
  /\ \A h \in tried \cup lastSel.tried :
       \A b \in 1..Len(BackendOrder) :
         h.provider = BackendOrder[b] => ~KeyMissing(b)
  /\ \A a \in Agents : \A b \in 1..Len(BackendOrder) :
       handles[a].provider = BackendOrder[b] => ~KeyMissing(b)

\* the step get_model takes when the backend under scan has no key
SkipGoesToNextBackend ==
  (/\ ctor > 0
   /\ KeyMissing(scan[1])
   /\ <<scan, tried, skipped, lastSel>>' # <<scan, tried, skipped, lastSel>>) =>
    \/ /\ scan[1] < Len(BackendOrder)
       /\ scan' = <<scan[1] + 1, 1>>
       /\ skipped' = skipped \cup {BackendOrder[scan[1]]}
       /\ tried' = tried
       /\ probed' = probed
    \/ /\ scan[1] = Len(BackendOrder)
       /\ lastSel'.raised
       /\ lastSel'.skipped = skipped \cup {BackendOrder[scan[1]]}
       /\ probed' = probed

C26_NoKeyNoTrial == []NoTrialWithoutKey /\ [][SkipGoesToNextBackend]_vars

\* a selection has passed over Groq and Gemini for want of a key, without a
\* trial, and has returned a Claude model
C26_Witness ==
  /\ lastSel.skipped = {"groq", "gemini"}
  /\ lastSel.tried = {}
  /\ ~lastSel.raised
  /\ lastSel.handle.provider = "claude"
  /\ KeyMissing(1) /\ KeyMissing(2)


(***************************************************************************)
(* C27: in the pipeline of one article the stages run strictly in the      *)
(* order detect, rewrite body, rewrite title (when the gate lets it in),   *)
(* explain: a stage's provider call starts only when the stage before it   *)
(* has returned, and the rewrite and the explanation are given the         *)
(* analysis the detection of that same article produced.                   *)
(***************************************************************************)
StageOrder ==
  {<<"created", "detect">>, <<"detect", "rewrite">>, <<"rewrite", "title">>,
   <<"rewrite", "explain">>, <<"title", "explain">>, <<"detect", "finished">>,
   <<"rewrite", "finished">>, <<"explain", "finished">>}

StagesInOrder ==
  \A i \in DOMAIN task :
    (i \in DOMAIN task' /\ task'[i].pc # task[i].pc) =>
      /\ <<task[i].pc, task'[i].pc>> \in StageOrder
      /\ task[i].pc # "detect" => task'[i].analysis = task[i].analysis

OwnAnalysis(i) ==
  DetectBiases(batch[i].body, handles["detector"].provider, script[i].detect)

AnalysisHandedOn ==
  \A i \in DOMAIN task :
    /\ task[i].pc \in {"rewrite", "title", "explain"} =>
         task[i].analysis = OwnAnalysis(i)
    /\ task[i].pc \in {"title", "explain"} =>
         task[i].neutral_text =
           RewriteNeutral(batch[i].body, OwnAnalysis(i),
                          handles["rewriter"].provider, script[i].rewrite).val
    /\ (Finished(i) /\ ~IsException(task[i].out)) =>
         /\ task[i].out.analysis = OwnAnalysis(i)
         /\ task[i].out.explanation =
              ExplainBiases(OwnAnalysis(i), handles["explainer"].provider,
                            script[i].explain)

C27_StagesInOrder == []AnalysisHandedOn /\ [][StagesInOrder]_vars

\* two articles with different detection replies are under way at once, the
\* first at its explanation, the second at its body rewrite
C27_Witness ==
  /\ bphase = "running"
  /\ Len(task) >= 2
  /\ task[1].pc = "explain"
  /\ task[2].pc = "rewrite"
  /\ task[1].analysis # task[2].analysis
  /\ task[1].neutral_title # batch[1].title


(***************************************************************************)
(* C28: when every provider call comes back with a reply or an exception,  *)
(* analyze_multiple_articles returns for every batch, and once it has      *)
(* returned every permit of the semaphore is free again, also when the     *)
(* pipeline of some article raised.                                        *)
(***************************************************************************)
BatchOver == bphase \in {"returned", "raised"}

PermitsFreeAfterReturn == BatchOver => permits = MaxConcurrent

C28_BatchReturnsPermitsFree == <>BatchOver /\ []PermitsFreeAfterReturn

\* a batch of more articles than permits has returned, one of its results
\* being the error record of a pipeline that raised
C28_Witness ==
  /\ bphase = "returned"
  /\ Len(batch) > MaxConcurrent
  /\ \E i \in 1..Len(results) : IsError(results[i])
  /\ \E i \in 1..Len(results) : ~IsError(results[i])
  /\ permits = MaxConcurrent


(***************************************************************************)
(* C29: over repeated calls of run_full_pipeline, a stored article whose   *)
(* analysis field is still empty is selected for analysis by a later run   *)
(* that fetched a non-empty list of articles, also when that run fetched   *)
(* the same article again.                                                 *)
(***************************************************************************)
FetchStepDone == rphase = "fetching" /\ rphase' # "fetching"

Selected(row) ==
  /\ rphase' = "analyzing"
  /\ \E i \in 1..Len(batch') : batch'[i] = Article(row.title, row.body)

LeftoverSelected ==
  (FetchStepDone /\ runs > 1) =>
    \A k \in Unprocessed(store) : Selected(store[k])

C29_LeftoverSelectedByLaterRun == [][LeftoverSelected]_vars

\* a second run has fetched while a row of the first run was still without
\* analysis, and returned without selecting anything
C29_Stranded ==
  /\ runs = 2
  /\ rphase = "idle"
  /\ Unprocessed(store) # {}


(***************************************************************************)
(* C30: the write-back list has an entry for result i only if result i is  *)
(* not an error record and has a non-empty analysis and a non-empty        *)
(* rewrite, and the entry carries the title of the i-th selected article;  *)
(* a result that is an error record never makes the analysis field of a    *)
(* stored row be set.                                                      *)
(***************************************************************************)
BatchAnalyzed == rphase = "analyzing" /\ bphase = "returned"

GoodResult(i) ==
  /\ "error" \notin DOMAIN results[i]
  /\ "analysis" \in DOMAIN results[i]
  /\ DOMAIN results[i].analysis # {}
  /\ "neutral_version" \in DOMAIN results[i]
  /\ results[i].neutral_version \notin {EmptyText, NoneText}

EntryOf(entry, i) ==
  /\ GoodResult(i)
  /\ entry.title = batch[i].title
  /\ entry.bias = BiasString(results[i].analysis)
  /\ entry.rewritten_article = results[i].neutral_version

WriteBackList == FormatResultsForDb(results, batch)

EntriesOfGoodResults ==
  BatchAnalyzed =>
    \E f \in [1..Len(WriteBackList) -> 1..Len(results)] :
      /\ \A j, k \in 1..Len(WriteBackList) : j < k => f[j] < f[k]
      /\ \A j \in 1..Len(WriteBackList) : EntryOf(WriteBackList[j], f[j])

RowsSetByGoodResults ==
  (BatchAnalyzed /\ rphase' = "idle") =>
    /\ Len(store') = Len(store)
    /\ \A r \in 1..Len(store) :
         store'[r] # store[r] =>
           \E i \in 1..Len(results) :
             /\ GoodResult(i)
             /\ batch[i].title = store[r].title
             /\ store'[r].bias = BiasString(results[i].analysis)
             /\ store'[r].rewritten_article = results[i].neutral_version

C30_WriteBackOnlyGoodResults ==
  []EntriesOfGoodResults /\ [][RowsSetByGoodResults]_vars

\* a batch of two has returned an error record and a result with analysis
\* and rewrite: the list has the one entry
C30_Witness ==
  /\ BatchAnalyzed
  /\ Len(results) = 2
  /\ IsError(results[1])
  /\ GoodResult(2)
  /\ Len(WriteBackList) = 1
  /\ WriteBackList[1].title = batch[2].title

\* a result that is no error record but has an empty rewrite: no entry
C30_WitnessEmptyRewrite ==
  /\ BatchAnalyzed
  /\ \E i \in 1..Len(results) : ~IsError(results[i]) /\ ~GoodResult(i)
  /\ Len(WriteBackList) < Len(results)

====
